---- MODULE Spec2Model ----
(***************************************************************************)
(* The resume parsing pipeline of portfolify: text extraction and          *)
(* normalization (textExtractor), rule-based section detection             *)
(* (sectionDetector), normalization to the portfolio schema (normalizer)   *)
(* and the orchestrating parseResume (parsingService).                     *)
(*                                                                         *)
(* A JavaScript string is a sequence of one-character strings (its UTF-16  *)
(* code units); the two non-ASCII characters the source names are the      *)
(* atoms "<bullet>" and "<endash>".  null and undefined are the one-element *)
(* sequences Null and Undefined, which are no strings.                     *)
(***************************************************************************)
EXTENDS Integers, Sequences, FiniteSets, TLC

VARIABLES
    pc,               \* position of the running call
    mimetype,         \* parseResume: the declared MIME type
    fileText,         \* parseResume: the text the decoder yields for the file
    useAI,            \* parseResume: options.useAI
    apiKey,           \* parseResume: whether process.env.OPENAI_API_KEY is set
    rawText,          \* parseResume: const rawText (Undefined until extracted)
    detectedSections, \* parseResume: const detectedSections
    portfolioData,    \* parseResume: const portfolioData
    thrown,           \* parseResume: the Error in flight (Undefined when none)
    result,           \* parseResume: the returned object
    reads,            \* number of decoder / file reads invoked so far
    emailLastIndex,   \* EMAIL_PATTERN.lastIndex (the regex is global)
    phoneLastIndex,   \* PHONE_PATTERN.lastIndex (the regex is global)
    arg,              \* argument of the function a function-level run applies
    ret,              \* its return value
    norm,             \* what the normalizer makes of that return value
    Portfolio,        \* uploadResume: the documents of the Portfolio collection
    Session,          \* uploadResume: the documents of the Session collection
    uploads           \* uploadResume: each request's position, locals and response

vars == <<pc, mimetype, fileText, useAI, apiKey, rawText, detectedSections, portfolioData,
          thrown, result, reads, emailLastIndex, phoneLastIndex, arg, ret, norm,
          Portfolio, Session, uploads>>

(***************************************************************************)
(* JavaScript values and characters                                        *)
(***************************************************************************)
Null == <<"null">>
Undefined == <<"undefined">>

\* a value is falsy when it is null, undefined or the empty string
Falsy(v) == v \in {Null, Undefined, <<>>}

\* a || b
OrElse(a, b) == IF Falsy(a) THEN b ELSE a

IsString(v) == v \notin {Null, Undefined}

\* null or undefined where a list of strings, a record, or a list of records is
\* expected
NoList == << Null >>
NullRecord == [null |-> TRUE]
UndefinedRecord == [undefined |-> TRUE]
NoEntries == << NullRecord >>

\* !list || list.length === 0, for a list of strings and for a list of records
NoStrings(list) == list = NoList \/ Len(list) = 0
NoRecords(list) == list = NoEntries \/ Len(list) = 0

Lowers == <<"a","b","c","d","e","f","g","h","i","j","k","l","m","n","o","p","q","r","s","t","u","v","w","x","y","z">>
Uppers == <<"A","B","C","D","E","F","G","H","I","J","K","L","M","N","O","P","Q","R","S","T","U","V","W","X","Y","Z">>
LowerSet == {Lowers[i] : i \in 1..Len(Lowers)}
UpperSet == {Uppers[i] : i \in 1..Len(Uppers)}
DigitSet == {"0", "1", "2", "3", "4", "5", "6", "7", "8", "9"}
\* \w
WordSet == LowerSet \cup UpperSet \cup DigitSet \cup {"_"}
\* \s, and what String.prototype.trim removes
WhiteSpace == {" ", "\t", "\n", "\r", "\f"}

toLowerChar(c) ==
    IF c \in UpperSet
    THEN Lowers[CHOOSE i \in 1..Len(Uppers) : Uppers[i] = c]
    ELSE c

toUpperChar(c) ==
    IF c \in LowerSet
    THEN Uppers[CHOOSE i \in 1..Len(Lowers) : Lowers[i] = c]
    ELSE c

toLowerCase(s) == [i \in 1..Len(s) |-> toLowerChar(s[i])]

(***************************************************************************)
(* String methods                                                          *)
(***************************************************************************)
\* s.slice(from, to) on 0-based positions: the characters from+1 .. to
Slice(s, from, to) == SubSeq(s, from + 1, to)

\* s.trim()
trim(s) ==
    LET keep == {i \in 1..Len(s) : s[i] \notin WhiteSpace}
    IN  IF keep = {} THEN <<>>
        ELSE SubSeq(s, CHOOSE i \in keep : \A j \in keep : i <= j,
                       CHOOSE i \in keep : \A j \in keep : j <= i)

\* whether sub occurs in s at 0-based position p
OccursAt(s, sub, p) ==
    /\ p + Len(sub) <= Len(s)
    /\ \A k \in 1..Len(sub) : s[p + k] = sub[k]

\* s.includes(sub)
includes(s, sub) == \E p \in 0..Len(s) : OccursAt(s, sub, p)

\* s.indexOf(sub, from), -1 when absent
indexOf(s, sub, from) ==
    LET hits == {p \in from..Len(s) : OccursAt(s, sub, p)}
    IN  IF hits = {} THEN -1 ELSE CHOOSE p \in hits : \A q \in hits : p <= q

\* s.split(sep) for a non-empty separator string
RECURSIVE splitFrom(_, _, _)
splitFrom(s, sep, from) ==
    LET p == indexOf(s, sep, from)
    IN  IF p < 0 THEN << Slice(s, from, Len(s)) >>
        ELSE << Slice(s, from, p) >> \o splitFrom(s, sep, p + Len(sep))

split(s, sep) == splitFrom(s, sep, 0)

\* s.split(/[...]/) for a regex that matches exactly one character of `seps`
RECURSIVE splitCharsFrom(_, _, _)
splitCharsFrom(s, seps, from) ==
    LET hits == {p \in (from + 1)..Len(s) : s[p] \in seps}
    IN  IF hits = {} THEN << Slice(s, from, Len(s)) >>
        ELSE LET p == CHOOSE x \in hits : \A y \in hits : x <= y
             IN  << Slice(s, from, p - 1) >> \o splitCharsFrom(s, seps, p)

splitChars(s, seps) == splitCharsFrom(s, seps, 0)

\* list.join(sep)
RECURSIVE join(_, _)
join(list, sep) ==
    IF Len(list) = 0 THEN <<>>
    ELSE IF Len(list) = 1 THEN list[1]
    ELSE list[1] \o sep \o join(Tail(list), sep)

\* the concatenation of a list of lists (by halves, to keep the recursion shallow)
RECURSIVE flatten(_)
flatten(lists) ==
    IF Len(lists) = 0 THEN <<>>
    ELSE IF Len(lists) = 1 THEN lists[1]
    ELSE flatten(SubSeq(lists, 1, Len(lists) \div 2))
             \o flatten(SubSeq(lists, Len(lists) \div 2 + 1, Len(lists)))

\* the length of the run of characters of `cs` that starts after 0-based position p
\* (of the characters outside `cs` when neg)
runLength(s, cs, neg, p) ==
    CHOOSE n \in 0..(IF p < Len(s) THEN Len(s) - p ELSE 0) :
        /\ \A k \in 1..n : (s[p + k] \in cs) # neg
        /\ p + n < Len(s) => (s[p + n + 1] \in cs) = neg

(***************************************************************************)
(* Regular expressions: a backtracking matcher with JavaScript's priority  *)
(* order (greedy quantifiers, leftmost alternative first).  Ends(r, s, i)  *)
(* is the sequence of positions at which a match of r that starts at       *)
(* position i can end, in the order the engine tries them; positions count *)
(* the characters consumed, 0 .. Len(s).                                   *)
(***************************************************************************)
\* [cs] and [^cs]
ReSet(cs) == [t |-> "set", cs |-> cs, neg |-> FALSE]
ReNot(cs) == [t |-> "set", cs |-> cs, neg |-> TRUE]
ReCat(a, b) == [t |-> "cat", a |-> a, b |-> b]
ReAlt(a, b) == [t |-> "alt", a |-> a, b |-> b]
ReOpt(a) == [t |-> "opt", a |-> a]
\* [cs]* and [cs]+ : every quantified item of the source is one character class
ReStar(cs) == [t |-> "star", cs |-> cs, neg |-> FALSE]
RePlus(cs) == [t |-> "plus", cs |-> cs, neg |-> FALSE]
RePlusNot(cs) == [t |-> "plus", cs |-> cs, neg |-> TRUE]
ReBol == [t |-> "bol"]
ReEps == [t |-> "eps"]

RECURSIVE ReSeq(_)
ReSeq(rs) ==
    IF Len(rs) = 0 THEN ReEps
    ELSE IF Len(rs) = 1 THEN rs[1]
    ELSE ReCat(rs[1], ReSeq(Tail(rs)))

RECURSIVE ReAny(_)
ReAny(rs) == IF Len(rs) = 1 THEN rs[1] ELSE ReAlt(rs[1], ReAny(Tail(rs)))

\* a literal, case-sensitive and under the i flag
ReLit(s) == ReSeq([k \in 1..Len(s) |-> ReSet({s[k]})])
ReLitI(s) == ReSeq([k \in 1..Len(s) |-> ReSet({toLowerChar(s[k]), toUpperChar(s[k])})])

\* r{n}
RECURSIVE ReTimes(_, _)
ReTimes(r, n) == IF n = 0 THEN ReEps ELSE IF n = 1 THEN r ELSE ReCat(r, ReTimes(r, n - 1))

\* the ends of a greedy run of n characters from position i: longest first
RunEnds(i, n, least) == [k \in 1..(n - least + 1) |-> i + n - k + 1]

RECURSIVE Ends(_, _, _)
Ends(r, s, i) ==
    CASE r.t = "set" ->
            IF i < Len(s) /\ (s[i + 1] \in r.cs) # r.neg THEN <<i + 1>> ELSE <<>>
      [] r.t = "cat" ->
            LET starts == Ends(r.a, s, i)
            IN  flatten([k \in 1..Len(starts) |-> Ends(r.b, s, starts[k])])
      [] r.t = "alt" -> Ends(r.a, s, i) \o Ends(r.b, s, i)
      [] r.t = "opt" -> Ends(r.a, s, i) \o <<i>>
      [] r.t = "star" -> RunEnds(i, runLength(s, r.cs, r.neg, i), 0)
      [] r.t = "plus" -> RunEnds(i, runLength(s, r.cs, r.neg, i), 1)
      [] r.t = "bol" -> IF i = 0 THEN <<i>> ELSE <<>>
      [] r.t = "eps" -> <<i>>

NoMatch == [found |-> FALSE, start |-> 0, end |-> 0]

\* regex.exec(s) searching from position `from`: the leftmost match
Exec(r, s, from) ==
    LET starts == {p \in from..Len(s) : Ends(r, s, p) # <<>>}
    IN  IF starts = {} THEN NoMatch
        ELSE LET p == CHOOSE x \in starts : \A y \in starts : x <= y
             IN  [found |-> TRUE, start |-> p, end |-> Head(Ends(r, s, p))]

\* the text of a match
Matched(s, m) == Slice(s, m.start, m.end)

\* a non-global regex.test(s)
Test(r, s) == Exec(r, s, 0).found

\* s.match(/.../g): every match, left to right (no pattern here matches empty)
RECURSIVE MatchAllFrom(_, _, _)
MatchAllFrom(r, s, from) ==
    LET m == Exec(r, s, from)
    IN  IF ~m.found THEN <<>>
        ELSE << Matched(s, m) >> \o
             MatchAllFrom(r, s, IF m.end > m.start THEN m.end ELSE m.end + 1)

MatchAll(r, s) == MatchAllFrom(r, s, 0)

\* a global regex.test(s) that starts at lastIndex: the answer and the new lastIndex
TestGlobal(r, s, lastIndex) ==
    LET m == Exec(r, s, lastIndex)
    IN  IF lastIndex > Len(s) \/ ~m.found
        THEN [matched |-> FALSE, lastIndex |-> 0]
        ELSE [matched |-> TRUE, lastIndex |-> m.end]

\* s.split(regex) for a regex that matches no empty string
RECURSIVE splitReFrom(_, _, _)
splitReFrom(s, r, from) ==
    LET m == Exec(r, s, from)
    IN  IF ~m.found \/ m.end = m.start THEN << Slice(s, from, Len(s)) >>
        ELSE << Slice(s, from, m.start) >> \o splitReFrom(s, r, m.end)

splitRe(s, r) == splitReFrom(s, r, 0)

\* s.replace(/^[bullets]\s*/, ''): one leading bullet and the white space after it
stripBullet(s, bullets) ==
    IF Len(s) > 0 /\ s[1] \in bullets
    THEN Slice(s, 1 + runLength(s, WhiteSpace, FALSE, 1), Len(s))
    ELSE s

(***************************************************************************)
(* sectionDetector: the patterns                                           *)
(***************************************************************************)
SectionNames == <<"summary", "skills", "experience", "projects", "education">>

\* SECTION_PATTERNS: /^(a|b|...)/i for each section
SECTION_PATTERNS ==
    [summary |-> ReCat(ReBol, ReAny(<<ReLitI(<<"s","u","m","m","a","r","y">>), ReLitI(<<"o","b","j","e","c","t","i","v","e">>),
                    ReLitI(<<"p","r","o","f","i","l","e">>), ReLitI(<<"a","b","o","u","t">>), ReLitI(<<"a","b","o","u","t"," ","m","e">>),
                    ReLitI(<<"p","r","o","f","e","s","s","i","o","n","a","l"," ","s","u","m","m","a","r","y">>)>>)),
     skills |-> ReCat(ReBol, ReAny(<<ReLitI(<<"s","k","i","l","l","s">>), ReLitI(<<"t","e","c","h","n","i","c","a","l"," ","s","k","i","l","l","s">>),
                    ReLitI(<<"c","o","r","e"," ","c","o","m","p","e","t","e","n","c","i","e","s">>), ReLitI(<<"e","x","p","e","r","t","i","s","e">>),
                    ReLitI(<<"t","e","c","h","n","o","l","o","g","i","e","s">>)>>)),
     experience |-> ReCat(ReBol, ReAny(<<ReLitI(<<"e","x","p","e","r","i","e","n","c","e">>), ReLitI(<<"w","o","r","k"," ","e","x","p","e","r","i","e","n","c","e">>),
                    ReLitI(<<"e","m","p","l","o","y","m","e","n","t">>), ReLitI(<<"p","r","o","f","e","s","s","i","o","n","a","l"," ","e","x","p","e","r","i","e","n","c","e">>),
                    ReLitI(<<"w","o","r","k"," ","h","i","s","t","o","r","y">>)>>)),
     projects |-> ReCat(ReBol, ReAny(<<ReLitI(<<"p","r","o","j","e","c","t","s">>), ReLitI(<<"p","e","r","s","o","n","a","l"," ","p","r","o","j","e","c","t","s">>),
                    ReLitI(<<"k","e","y"," ","p","r","o","j","e","c","t","s">>), ReLitI(<<"p","o","r","t","f","o","l","i","o">>)>>)),
     education |-> ReCat(ReBol, ReAny(<<ReLitI(<<"e","d","u","c","a","t","i","o","n">>), ReLitI(<<"a","c","a","d","e","m","i","c">>),
                    ReLitI(<<"q","u","a","l","i","f","i","c","a","t","i","o","n","s">>), ReLitI(<<"a","c","a","d","e","m","i","c"," ","b","a","c","k","g","r","o","u","n","d">>)>>))]

\* [a-zA-Z0-9._-] and [a-zA-Z0-9_-]
EmailChars == LowerSet \cup UpperSet \cup DigitSet \cup {".", "_", "-"}
HandleChars == LowerSet \cup UpperSet \cup DigitSet \cup {"_", "-"}
\* [-.\s]
PhoneSeps == {"-", "."} \cup WhiteSpace

\* /([a-zA-Z0-9._-]+@[a-zA-Z0-9._-]+\.[a-zA-Z0-9_-]+)/gi
EMAIL_PATTERN ==
    ReSeq(<<RePlus(EmailChars), ReSet({"@"}), RePlus(EmailChars),
            ReSet({"."}), RePlus(HandleChars)>>)

\* /(\+?\d{1,3}[-.\s]?)?\(?\d{3}\)?[-.\s]?\d{3}[-.\s]?\d{4}/g
PHONE_PATTERN ==
    LET d == ReSet(DigitSet)
        sep == ReOpt(ReSet(PhoneSeps))
    IN  ReSeq(<<ReOpt(ReSeq(<<ReOpt(ReSet({"+"})),
                              ReCat(d, ReOpt(ReCat(d, ReOpt(d)))), sep>>)),
                ReOpt(ReSet({"("})), ReTimes(d, 3), ReOpt(ReSet({")"})), sep,
                ReTimes(d, 3), sep, ReTimes(d, 4)>>)

\* /https?:\/\//, and with the i flag
HttpPrefix == ReSeq(<<ReLit(<<"h","t","t","p">>), ReOpt(ReLit(<<"s">>)), ReLit(<<":","/","/">>)>>)
HttpPrefixI == ReSeq(<<ReLitI(<<"h","t","t","p">>), ReOpt(ReLitI(<<"s">>)), ReLitI(<<":","/","/">>)>>)

\* URL_PATTERNS
URL_PATTERNS ==
    [github |-> ReCat(ReLitI(<<"g","i","t","h","u","b",".","c","o","m","/">>), RePlus(HandleChars)),
     linkedin |-> ReCat(ReLitI(<<"l","i","n","k","e","d","i","n",".","c","o","m","/","i","n","/">>), RePlus(HandleChars)),
     website |-> ReCat(HttpPrefixI, RePlusNot(WhiteSpace))]

\* the characters /^[<bullet>\-\*]/ accepts
Bullets == {"<bullet>", "-", "*"}

(***************************************************************************)
(* sectionDetector: detectName, detectContact, detectLinks                 *)
(***************************************************************************)
\* Object.values(SECTION_PATTERNS).some(pattern => pattern.test(line))
IsSectionHeader(line) ==
    \E k \in 1..Len(SectionNames) : Test(SECTION_PATTERNS[SectionNames[k]], line)

\* line.split(/\s+/).filter(w => w.length > 0)
Words(line) ==
    SelectSeq(splitRe(line, RePlus(WhiteSpace)), LAMBDA w : Len(w) > 0)

\* words.length >= 2 && words.length <= 4 && words.every(w => /^[A-Z]/.test(w))
LooksLikeName(line) ==
    LET words == Words(line)
    IN  /\ Len(words) >= 2
        /\ Len(words) <= 4
        /\ \A k \in 1..Len(words) : words[k][1] \in UpperSet

\* the loop of detectName from index i on, with the two global regexes' lastIndex
\* as the earlier tests left them; returns the name and the lastIndex values left
RECURSIVE detectNameFrom(_, _, _, _)
detectNameFrom(lines, i, eLast, pLast) ==
    IF i >= (IF Len(lines) < 5 THEN Len(lines) ELSE 5)
    THEN [name |-> IF Len(lines) = 0 THEN <<"U","n","k","n","o","w","n">> ELSE OrElse(lines[1], <<"U","n","k","n","o","w","n">>),
          emailLastIndex |-> eLast, phoneLastIndex |-> pLast]
    ELSE
        LET line == trim(lines[i + 1])
            e == TestGlobal(EMAIL_PATTERN, line, eLast)
            p == TestGlobal(PHONE_PATTERN, line, pLast)
        IN  IF e.matched THEN detectNameFrom(lines, i + 1, e.lastIndex, pLast)
            ELSE IF p.matched THEN detectNameFrom(lines, i + 1, e.lastIndex, p.lastIndex)
            ELSE IF \/ Test(HttpPrefix, line)
                    \/ Len(line) > 50
                    \/ IsSectionHeader(line)
                    \/ ~LooksLikeName(line)
                 THEN detectNameFrom(lines, i + 1, e.lastIndex, p.lastIndex)
                 ELSE [name |-> line,
                       emailLastIndex |-> e.lastIndex, phoneLastIndex |-> p.lastIndex]

\* detectName that returns '' when no line qualified as a name
detectNameWithoutFallback(lines, eLast, pLast) ==
    LET named == detectNameFrom(lines, 0, eLast, pLast)
    IN  IF LooksLikeName(named.name) THEN named ELSE [named EXCEPT !.name = <<>>]

detectName(lines, eLast, pLast) == detectNameFrom(lines, 0, eLast, pLast)

\* text.match(globalRegex) that leaves the regex's lastIndex as it found it
lastIndexAfterMatchKept(lastIndex) == lastIndex

\* text.match(globalRegex) sets lastIndex to 0 before its first exec, and its
\* last exec, which fails, sets it to 0 again
lastIndexAfterMatch(lastIndex) == 0

\* text.match(globalRegex): the first match or null
FirstMatch(r, text) ==
    LET m == Exec(r, text, 0)
    IN  IF m.found THEN Matched(text, m) ELSE Null

detectContact(text) ==
    [email |-> FirstMatch(EMAIL_PATTERN, text),
     phone |-> FirstMatch(PHONE_PATTERN, text)]

\* GithubLink with the pattern taken without its i flag
GithubLinkCaseSensitive(text) ==
    LET m == Exec(ReCat(ReLit(<<"g","i","t","h","u","b",".","c","o","m","/">>), RePlus(HandleChars)), text, 0)
    IN  IF m.found
        THEN <<"h","t","t","p","s",":","/","/","g","i","t","h","u","b",".","c","o","m","/">> \o Slice(text, m.start + Len(<<"g","i","t","h","u","b",".","c","o","m","/">>), m.end)
        ELSE Null

\* `https://github.com/${githubMatch[1]}`: group 1 is the match after "github.com/"
GithubLink(text) ==
    LET m == Exec(URL_PATTERNS.github, text, 0)
    IN  IF m.found
        THEN <<"h","t","t","p","s",":","/","/","g","i","t","h","u","b",".","c","o","m","/">> \o Slice(text, m.start + Len(<<"g","i","t","h","u","b",".","c","o","m","/">>), m.end)
        ELSE Null

LinkedinLink(text) ==
    LET m == Exec(URL_PATTERNS.linkedin, text, 0)
    IN  IF m.found
        THEN <<"h","t","t","p","s",":","/","/","l","i","n","k","e","d","i","n",".","c","o","m","/","i","n","/">>
                 \o Slice(text, m.start + Len(<<"l","i","n","k","e","d","i","n",".","c","o","m","/","i","n","/">>), m.end)
        ELSE Null

WebsiteLink(text) ==
    LET otherUrls == SelectSeq(MatchAll(URL_PATTERNS.website, text),
                         LAMBDA url : /\ ~includes(url, <<"g","i","t","h","u","b",".","c","o","m">>)
                                      /\ ~includes(url, <<"l","i","n","k","e","d","i","n",".","c","o","m">>))
    IN  IF Len(otherUrls) > 0 THEN otherUrls[1] ELSE Null

detectLinks(text) ==
    [github |-> GithubLink(text),
     linkedin |-> LinkedinLink(text),
     website |-> WebsiteLink(text)]

(***************************************************************************)
(* sectionDetector: findSections                                           *)
(***************************************************************************)
\* let currentSection = null
NoSection == "none"

\* the first pattern, in declaration order, that the line matches
RECURSIVE FoundSectionFrom(_, _)
FoundSectionFrom(line, k) ==
    IF k > Len(SectionNames) THEN NoSection
    ELSE IF Test(SECTION_PATTERNS[SectionNames[k]], line) THEN SectionNames[k]
    ELSE FoundSectionFrom(line, k + 1)

FoundSection(line) == FoundSectionFrom(line, 1)

\* sections[currentSection] = lines.slice(sectionStartIndex, i)
SaveSection(sections, lines, currentSection, sectionStartIndex, i) ==
    IF currentSection # NoSection /\ sectionStartIndex >= 0
    THEN [sections EXCEPT ![currentSection] = Slice(lines, sectionStartIndex, i)]
    ELSE sections

RECURSIVE findSectionsFrom(_, _, _, _, _)
findSectionsFrom(lines, i, sections, currentSection, sectionStartIndex) ==
    IF i >= Len(lines)
    THEN SaveSection(sections, lines, currentSection, sectionStartIndex, Len(lines))
    ELSE LET foundSection == FoundSection(trim(lines[i + 1]))
         IN  IF foundSection # NoSection
             THEN findSectionsFrom(lines, i + 1,
                      SaveSection(sections, lines, currentSection, sectionStartIndex, i),
                      foundSection, i + 1)
             ELSE findSectionsFrom(lines, i + 1, sections, currentSection,
                                   sectionStartIndex)

findSections(lines) ==
    findSectionsFrom(lines, 0,
        [summary |-> <<>>, skills |-> <<>>, experience |-> <<>>,
         projects |-> <<>>, education |-> <<>>],
        NoSection, -1)

(***************************************************************************)
(* sectionDetector: the per-section parsers                                *)
(***************************************************************************)
detectSummary(sectionLines) ==
    IF NoStrings(sectionLines) THEN Null
    ELSE trim(join(SelectSeq(sectionLines, LAMBDA line : Len(trim(line)) > 0), <<" ">>))

\* sectionLines.forEach(line => ...) of the one-skill-per-line branch
SkillLines(sectionLines) ==
    SelectSeq([k \in 1..Len(sectionLines) |-> stripBullet(trim(sectionLines[k]), Bullets)],
              LAMBDA line : Len(line) > 0)

\* CommaSkills without .filter(s => s.length > 0)
CommaSkillsKeepsEmpty(text) ==
    LET pieces == split(text, <<",">>)
    IN  [k \in 1..Len(pieces) |-> trim(pieces[k])]

\* text.split(',').map(s => s.trim()).filter(s => s.length > 0)
CommaSkills(text) ==
    LET pieces == split(text, <<",">>)
    IN  SelectSeq([k \in 1..Len(pieces) |-> trim(pieces[k])], LAMBDA p : Len(p) > 0)

detectSkills(sectionLines) ==
    IF NoStrings(sectionLines) THEN <<>>
    ELSE LET text == join(sectionLines, <<" ">>)
         IN  IF includes(text, <<",">>) THEN CommaSkills(text) ELSE SkillLines(sectionLines)

\* const datePattern = /(\d{4}|\w+\s+\d{4}|present|current)/i
\* datePattern without its alternatives present and current
datePatternYearsOnly ==
    LET d4 == ReTimes(ReSet(DigitSet), 4)
    IN  ReAny(<<d4, ReSeq(<<RePlus(WordSet), RePlus(WhiteSpace), d4>>)>>)

datePattern ==
    LET d4 == ReTimes(ReSet(DigitSet), 4)
    IN  ReAny(<<d4,
                ReSeq(<<RePlus(WordSet), RePlus(WhiteSpace), d4>>),
                ReLitI(<<"p","r","e","s","e","n","t">>), ReLitI(<<"c","u","r","r","e","n","t">>)>>)

\* /(\w+\s+\d{4}\s*[-<endash>]\s*\w+\s+\d{4}|\w+\s+\d{4}\s*[-<endash>]\s*present|\d{4}\s*[-<endash>]\s*\d{4})/i
durationPattern ==
    LET d4 == ReTimes(ReSet(DigitSet), 4)
        w == RePlus(WordSet)
        sp == RePlus(WhiteSpace)
        dash == ReSeq(<<ReStar(WhiteSpace), ReSet({"-", "<endash>"}),
                        ReStar(WhiteSpace)>>)
    IN  ReAny(<<ReSeq(<<w, sp, d4, dash, w, sp, d4>>),
                ReSeq(<<w, sp, d4, dash, ReLitI(<<"p","r","e","s","e","n","t">>)>>),
                ReSeq(<<d4, dash, d4>>)>>)

\* const [role, company] = firstPart.split(' at ').map(s => s.trim())
RoleCompany(firstPart) ==
    LET pieces == split(firstPart, <<" ","a","t"," ">>)
    IN  [role |-> trim(pieces[1]),
         company |-> IF Len(pieces) >= 2 THEN trim(pieces[2]) ELSE Undefined]

\* the entry a header line opens
ExperienceHeader(trimmed) ==
    LET parts == splitChars(trimmed, {"|", ",", "("})
        firstPart == trim(parts[1])
        atSplit == includes(toLowerCase(firstPart), <<" ","a","t"," ">>)
        durMatch == Exec(durationPattern, trimmed, 0)
    IN  [role |-> IF atSplit THEN RoleCompany(firstPart).role ELSE firstPart,
         company |-> IF atSplit THEN RoleCompany(firstPart).company ELSE <<>>,
         duration |-> IF durMatch.found THEN Matched(trimmed, durMatch) ELSE <<>>,
         description |-> <<>>,
         highlights |-> <<>>]

\* the loop of detectExperience; currentExp is <<>> for null, else one entry
RECURSIVE detectExperienceFrom(_, _, _, _)
detectExperienceFrom(sectionLines, k, experiences, currentExp) ==
    IF k > Len(sectionLines) THEN experiences \o currentExp
    ELSE
        LET trimmed == trim(sectionLines[k])
            cleaned == stripBullet(trimmed, Bullets)
        IN  IF Len(trimmed) = 0
            THEN detectExperienceFrom(sectionLines, k + 1, experiences, currentExp)
            ELSE IF Test(datePattern, trimmed)
            THEN detectExperienceFrom(sectionLines, k + 1, experiences \o currentExp,
                                      << ExperienceHeader(trimmed) >>)
            ELSE IF currentExp # <<>> /\ Len(cleaned) > 0
            THEN detectExperienceFrom(sectionLines, k + 1, experiences,
                     << [currentExp[1] EXCEPT !.highlights = Append(@, cleaned)] >>)
            ELSE detectExperienceFrom(sectionLines, k + 1, experiences, currentExp)

\* detectExperience without the final pass that builds the descriptions
detectExperienceNoDescription(sectionLines) ==
    IF NoStrings(sectionLines) THEN <<>>
    ELSE detectExperienceFrom(sectionLines, 1, <<>>, <<>>)

detectExperience(sectionLines) ==
    IF NoStrings(sectionLines) THEN <<>>
    ELSE LET experiences == detectExperienceFrom(sectionLines, 1, <<>>, <<>>)
         IN  [k \in 1..Len(experiences) |->
                 [experiences[k] EXCEPT !.description = join(experiences[k].highlights, <<" ">>)]]

\* /(https?:\/\/[^\s]+)/
projectLinkPattern == ReCat(HttpPrefix, RePlusNot(WhiteSpace))

IsTechLine(cleaned) ==
    \/ includes(toLowerCase(cleaned), <<"t","e","c","h","n","o","l","o","g","i","e","s",":">>)
    \/ includes(toLowerCase(cleaned), <<"t","e","c","h"," ","s","t","a","c","k",":">>)
    \/ includes(toLowerCase(cleaned), <<"b","u","i","l","t"," ","w","i","t","h",":">>)

\* ProjectLine that sets the link only while the project has none
ProjectLineFirstLinkWins(currentProject, cleaned) ==
    LET linkMatch == Exec(projectLinkPattern, cleaned, 0)
        described == IF IsTechLine(cleaned) THEN currentProject
                     ELSE [currentProject EXCEPT
                              !.description = @ \o (IF Len(@) > 0 THEN <<" ">> ELSE <<>>)
                                                \o cleaned]
    IN  IF linkMatch.found /\ currentProject.link = Null
        THEN [described EXCEPT !.link = Matched(cleaned, linkMatch)]
        ELSE described

\* a description or tech-stack line applied to the open project
ProjectLine(currentProject, cleaned) ==
    LET techPart == split(cleaned, <<":">>)[2]
        techs == split(techPart, <<",">>)
        withText ==
            IF IsTechLine(cleaned)
            THEN IF Len(techPart) > 0
                 THEN [currentProject EXCEPT
                          !.tech = [k \in 1..Len(techs) |-> trim(techs[k])]]
                 ELSE currentProject
            ELSE [currentProject EXCEPT
                     !.description = @ \o (IF Len(@) > 0 THEN <<" ">> ELSE <<>>) \o cleaned]
        linkMatch == Exec(projectLinkPattern, cleaned, 0)
    IN  IF linkMatch.found
        THEN [withText EXCEPT !.link = Matched(cleaned, linkMatch)]
        ELSE withText

\* the loop of detectProjects; currentProject is <<>> for null, else one project
RECURSIVE detectProjectsFrom(_, _, _, _)
detectProjectsFrom(sectionLines, k, projects, currentProject) ==
    IF k > Len(sectionLines) THEN projects \o currentProject
    ELSE
        LET trimmed == trim(sectionLines[k])
            isBullet == trimmed[1] \in Bullets
        IN  IF Len(trimmed) = 0
            THEN detectProjectsFrom(sectionLines, k + 1, projects, currentProject)
            ELSE IF ~isBullet /\ Len(trimmed) > 5 /\ ~includes(trimmed, <<":">>)
            THEN detectProjectsFrom(sectionLines, k + 1, projects \o currentProject,
                     << [title |-> trimmed, tech |-> <<>>, description |-> <<>>,
                         link |-> Null] >>)
            ELSE IF currentProject # <<>>
            THEN detectProjectsFrom(sectionLines, k + 1, projects,
                     << ProjectLine(currentProject[1], stripBullet(trimmed, Bullets)) >>)
            ELSE detectProjectsFrom(sectionLines, k + 1, projects, currentProject)

detectProjects(sectionLines) ==
    IF NoStrings(sectionLines) THEN <<>>
    ELSE detectProjectsFrom(sectionLines, 1, <<>>, <<>>)

\* /(bachelor|master|phd|doctorate|b\.s\.|m\.s\.|b\.a\.|m\.a\.|b\.tech|m\.tech)/i
degreePattern ==
    ReAny(<<ReLitI(<<"b","a","c","h","e","l","o","r">>), ReLitI(<<"m","a","s","t","e","r">>), ReLitI(<<"p","h","d">>), ReLitI(<<"d","o","c","t","o","r","a","t","e">>),
            ReLitI(<<"b",".","s",".">>), ReLitI(<<"m",".","s",".">>), ReLitI(<<"b",".","a",".">>), ReLitI(<<"m",".","a",".">>),
            ReLitI(<<"b",".","t","e","c","h">>), ReLitI(<<"m",".","t","e","c","h">>)>>)

\* the entry a degree line opens
EducationHeader(trimmed) ==
    LET yearMatch == Exec(ReTimes(ReSet(DigitSet), 4), trimmed, 0)
    IN  [degree |-> trimmed,
         institution |-> <<>>,
         year |-> IF yearMatch.found THEN Matched(trimmed, yearMatch) ELSE <<>>,
         details |-> <<>>]

\* EducationLine that takes the first line of any length as the institution
EducationLineAnyLength(currentEdu, trimmed) ==
    IF Len(currentEdu.institution) = 0
    THEN [currentEdu EXCEPT !.institution = trimmed]
    ELSE [currentEdu EXCEPT
             !.details = @ \o (IF Len(@) > 0 THEN <<" ">> ELSE <<>>) \o trimmed]

\* a line without a degree applied to the open entry: the institution or details
EducationLine(currentEdu, trimmed) ==
    IF Len(currentEdu.institution) = 0 /\ Len(trimmed) > 5
    THEN [currentEdu EXCEPT !.institution = trimmed]
    ELSE [currentEdu EXCEPT
             !.details = @ \o (IF Len(@) > 0 THEN <<" ">> ELSE <<>>) \o trimmed]

\* the loop of detectEducation; currentEdu is <<>> for null, else one entry
RECURSIVE detectEducationFrom(_, _, _, _)
detectEducationFrom(sectionLines, k, education, currentEdu) ==
    IF k > Len(sectionLines) THEN education \o currentEdu
    ELSE
        LET trimmed == trim(sectionLines[k])
        IN  IF Len(trimmed) = 0
            THEN detectEducationFrom(sectionLines, k + 1, education, currentEdu)
            ELSE IF Test(degreePattern, trimmed)
            THEN detectEducationFrom(sectionLines, k + 1, education \o currentEdu,
                                     << EducationHeader(trimmed) >>)
            ELSE IF currentEdu # <<>>
            THEN detectEducationFrom(sectionLines, k + 1, education,
                                     << EducationLine(currentEdu[1], trimmed) >>)
            ELSE detectEducationFrom(sectionLines, k + 1, education, currentEdu)

detectEducation(sectionLines) ==
    IF NoStrings(sectionLines) THEN <<>>
    ELSE detectEducationFrom(sectionLines, 1, <<>>, <<>>)

(***************************************************************************)
(* sectionDetector: detectSections                                         *)
(***************************************************************************)
\* text.split('\n').filter(line => line.trim().length > 0)
NonEmptyLines(text) ==
    SelectSeq(split(text, <<"\n">>), LAMBDA line : Len(trim(line)) > 0)

\* eLast, pLast: EMAIL_PATTERN.lastIndex and PHONE_PATTERN.lastIndex at the call
detectSections(text, eLast, pLast) ==
    LET lines == NonEmptyLines(text)
        sections == findSections(lines)
    IN  [name |-> detectName(lines, eLast, pLast).name,
         contact |-> detectContact(text),
         links |-> detectLinks(text),
         summary |-> detectSummary(sections.summary),
         skills |-> detectSkills(sections.skills),
         experience |-> detectExperience(sections.experience),
         projects |-> detectProjects(sections.projects),
         education |-> detectEducation(sections.education)]

(***************************************************************************)
(* normalizer                                                              *)
(***************************************************************************)
\* normalizeName without the comparison with 'Unknown'
normalizeNameKeepsUnknown(rawName) ==
    IF Falsy(rawName) THEN <<"P","o","r","t","f","o","l","i","o"," ","O","w","n","e","r">> ELSE trim(rawName)

normalizeName(rawName) ==
    IF Falsy(rawName) \/ rawName = <<"U","n","k","n","o","w","n">> THEN <<"P","o","r","t","f","o","l","i","o"," ","O","w","n","e","r">>
    ELSE trim(rawName)

generateHeadline(name, experience) ==
    IF Len(experience) > 0 /\ ~Falsy(experience[1].role) THEN experience[1].role
    ELSE <<"P","r","o","f","e","s","s","i","o","n","a","l">>

\* const categories, in declaration order, and the 'Other' bucket of categorized
CategoryNames ==
    <<<<"L","a","n","g","u","a","g","e","s">>, <<"F","r","o","n","t","e","n","d">>, <<"B","a","c","k","e","n","d">>, <<"D","a","t","a","b","a","s","e">>, <<"D","e","v","O","p","s">>, <<"T","o","o","l","s">>, <<"O","t","h","e","r">>>>

CategoryKeywords ==
    << <<<<"j","a","v","a","s","c","r","i","p","t">>, <<"p","y","t","h","o","n">>, <<"j","a","v","a">>, <<"c","+","+">>, <<"c","#">>, <<"r","u","b","y">>, <<"g","o">>, <<"r","u","s","t">>,
         <<"t","y","p","e","s","c","r","i","p","t">>, <<"p","h","p">>, <<"s","w","i","f","t">>, <<"k","o","t","l","i","n">>>>,
       <<<<"r","e","a","c","t">>, <<"v","u","e">>, <<"a","n","g","u","l","a","r">>, <<"h","t","m","l">>, <<"c","s","s">>, <<"t","a","i","l","w","i","n","d">>, <<"b","o","o","t","s","t","r","a","p">>,
         <<"s","a","s","s">>, <<"l","e","s","s">>>>,
       <<<<"n","o","d","e">>, <<"e","x","p","r","e","s","s">>, <<"d","j","a","n","g","o">>, <<"f","l","a","s","k">>, <<"s","p","r","i","n","g">>, <<"l","a","r","a","v","e","l">>, <<".","n","e","t">>,
         <<"f","a","s","t","a","p","i">>, <<"n","e","s","t","j","s">>>>,
       <<<<"m","o","n","g","o","d","b">>, <<"p","o","s","t","g","r","e","s","q","l">>, <<"m","y","s","q","l">>, <<"r","e","d","i","s">>, <<"d","y","n","a","m","o","d","b">>, <<"s","q","l">>, <<"n","o","s","q","l">>,
         <<"f","i","r","e","b","a","s","e">>>>,
       <<<<"d","o","c","k","e","r">>, <<"k","u","b","e","r","n","e","t","e","s">>, <<"a","w","s">>, <<"a","z","u","r","e">>, <<"g","c","p">>, <<"c","i","/","c","d">>, <<"j","e","n","k","i","n","s">>,
         <<"g","i","t","h","u","b"," ","a","c","t","i","o","n","s">>>>,
       <<<<"g","i","t">>, <<"g","i","t","h","u","b">>, <<"g","i","t","l","a","b">>, <<"j","i","r","a">>, <<"f","i","g","m","a">>, <<"p","o","s","t","m","a","n">>, <<"v","s","c","o","d","e">>>> >>

\* keywords.some(keyword => skillLower.includes(keyword))
InCategory(skill, c) ==
    \E k \in 1..Len(CategoryKeywords[c]) :
        includes(toLowerCase(skill), CategoryKeywords[c][k])

\* CategoryOf without the break: the last category that matches
CategoryOfLastMatch(skill) ==
    LET hits == {c \in 1..Len(CategoryKeywords) : InCategory(skill, c)}
    IN  IF hits = {} THEN Len(CategoryNames)
        ELSE CHOOSE c \in hits : \A d \in hits : c >= d

\* the index of the bucket a skill is pushed to: the first category that matches
CategoryOf(skill) ==
    LET hits == {c \in 1..Len(CategoryKeywords) : InCategory(skill, c)}
    IN  IF hits = {} THEN Len(CategoryNames)
        ELSE CHOOSE c \in hits : \A d \in hits : c <= d

normalizeSkills(rawSkills) ==
    IF NoStrings(rawSkills) THEN <<>>
    ELSE SelectSeq(
             [c \in 1..Len(CategoryNames) |->
                 [category |-> CategoryNames[c],
                  items |-> SelectSeq(rawSkills, LAMBDA skill : CategoryOf(skill) = c)]],
             LAMBDA entry : Len(entry.items) > 0)

\* list || []
OrEmptyList(list) == IF list = NoList THEN <<>> ELSE list

normalizeExperience(rawExperience) ==
    IF NoRecords(rawExperience) THEN <<>>
    ELSE [k \in 1..Len(rawExperience) |->
             [role |-> OrElse(rawExperience[k].role, <<"P","o","s","i","t","i","o","n">>),
              company |-> OrElse(rawExperience[k].company, <<>>),
              duration |-> OrElse(rawExperience[k].duration, <<>>),
              description |-> OrElse(rawExperience[k].description, <<>>),
              highlights |-> OrEmptyList(rawExperience[k].highlights)]]

\* normalizeProjects with '' instead of 'Untitled Project'
normalizeProjectsEmptyTitle(rawProjects) ==
    IF NoRecords(rawProjects) THEN <<>>
    ELSE [k \in 1..Len(rawProjects) |->
             [title |-> OrElse(rawProjects[k].title, <<>>),
              tech |-> OrEmptyList(rawProjects[k].tech),
              description |-> OrElse(rawProjects[k].description, <<>>),
              link |-> OrElse(rawProjects[k].link, Null),
              image |-> Null]]

normalizeProjects(rawProjects) ==
    IF NoRecords(rawProjects) THEN <<>>
    ELSE [k \in 1..Len(rawProjects) |->
             [title |-> OrElse(rawProjects[k].title, <<"U","n","t","i","t","l","e","d"," ","P","r","o","j","e","c","t">>),
              tech |-> OrEmptyList(rawProjects[k].tech),
              description |-> OrElse(rawProjects[k].description, <<>>),
              link |-> OrElse(rawProjects[k].link, Null),
              image |-> Null]]

\* normalizeEducation that copies the entries without the `|| ''` defaults
normalizeEducationNoDefaults(rawEducation) ==
    IF NoRecords(rawEducation) THEN <<>> ELSE rawEducation

normalizeEducation(rawEducation) ==
    IF NoRecords(rawEducation) THEN <<>>
    ELSE [k \in 1..Len(rawEducation) |->
             [degree |-> OrElse(rawEducation[k].degree, <<>>),
              institution |-> OrElse(rawEducation[k].institution, <<>>),
              year |-> OrElse(rawEducation[k].year, <<>>),
              details |-> OrElse(rawEducation[k].details, <<>>)]]

normalizeLinks(contact, links) ==
    [github |-> OrElse(links.github, Null),
     linkedin |-> OrElse(links.linkedin, Null),
     email |-> OrElse(contact.email, Null),
     phone |-> OrElse(contact.phone, Null),
     website |-> OrElse(links.website, Null)]

createPortfolioSchema(detected) ==
    [name |-> normalizeName(detected.name),
     headline |-> generateHeadline(normalizeName(detected.name),
                                   normalizeExperience(detected.experience)),
     summary |-> OrElse(detected.summary, <<>>),
     skills |-> normalizeSkills(detected.skills),
     experience |-> normalizeExperience(detected.experience),
     projects |-> normalizeProjects(detected.projects),
     education |-> normalizeEducation(detected.education),
     links |-> normalizeLinks(detected.contact, detected.links),
     theme |-> <<"m","o","d","e","r","n">>,
     customizations |->
         [colors |-> [primary |-> <<"#","3","B","8","2","F","6">>, secondary |-> <<"#","1","E","4","0","A","F">>,
                      accent |-> <<"#","6","0","A","5","F","A">>],
          fonts |-> [heading |-> <<"I","n","t","e","r">>, body |-> <<"I","n","t","e","r">>],
          layout |-> <<"d","e","f","a","u","l","t">>]]

(***************************************************************************)
(* textExtractor                                                           *)
(***************************************************************************)
\* .replace(/\n{3,}/g, '\n\n') from 0-based position p on
RECURSIVE collapseBreaksFrom(_, _)
collapseBreaksFrom(s, p) ==
    LET run == runLength(s, {"\n"}, FALSE, p)
        text == runLength(s, {"\n"}, TRUE, p)
    IN  IF p >= Len(s) THEN <<>>
        ELSE IF run >= 3 THEN <<"\n","\n">> \o collapseBreaksFrom(s, p + run)
        ELSE IF run > 0 THEN Slice(s, p, p + run) \o collapseBreaksFrom(s, p + run)
        ELSE Slice(s, p, p + text) \o collapseBreaksFrom(s, p + text)

\* normalizeText without the filter that drops the lines that became empty
normalizeTextKeepsBlankLines(text) ==
    LET lines == split(text, <<"\n">>)
    IN  collapseBreaksFrom(join([k \in 1..Len(lines) |-> trim(lines[k])], <<"\n">>), 0)

normalizeText(text) ==
    LET lines == split(text, <<"\n">>)
        kept == SelectSeq([k \in 1..Len(lines) |-> trim(lines[k])],
                          LAMBDA line : Len(line) > 0)
    IN  collapseBreaksFrom(join(kept, <<"\n">>), 0)

MimePdf == <<"a","p","p","l","i","c","a","t","i","o","n","/","p","d","f">>
MimeDocx == <<"a","p","p","l","i","c","a","t","i","o","n","/","v","n","d",".","o","p","e","n","x","m","l","f","o","r","m","a","t","s","-","o","f","f","i","c","e","d","o","c","u","m","e","n","t",".","w","o","r","d","p","r","o","c","e","s","s","i","n","g","m","l",".","d","o","c","u","m","e","n","t">>
MimeTxt == <<"t","e","x","t","/","p","l","a","i","n">>

\* the switch with one more case
SupportedMimeWithHtml(type) == type \in {MimePdf, MimeDocx, MimeTxt, <<"t","e","x","t","/","h","t","m","l">>}

\* the cases of the switch in extractText
SupportedMime(type) == type \in {MimePdf, MimeDocx, MimeTxt}

\* the message of the Error a failing decoder or file read is wrapped in
DecoderFailure(type, message) ==
    (IF type = MimePdf THEN <<"F","a","i","l","e","d"," ","t","o"," ","e","x","t","r","a","c","t"," ","t","e","x","t"," ","f","r","o","m"," ","P","D","F",":"," ">>
     ELSE IF type = MimeDocx THEN <<"F","a","i","l","e","d"," ","t","o"," ","e","x","t","r","a","c","t"," ","t","e","x","t"," ","f","r","o","m"," ","D","O","C","X",":"," ">>
     ELSE <<"F","a","i","l","e","d"," ","t","o"," ","r","e","a","d"," ","T","X","T"," ","f","i","l","e",":"," ">>) \o message

UnsupportedFileType(type) == <<"U","n","s","u","p","p","o","r","t","e","d"," ","f","i","l","e"," ","t","y","p","e",":"," ">> \o type

(***************************************************************************)
(* parsingService: parseResume, one action per step of the pipeline        *)
(***************************************************************************)
\* rawText.length < 50
MinTextLength == 50

TooShort == <<"E","x","t","r","a","c","t","e","d"," ","t","e","x","t"," ","i","s"," ","t","o","o"," ","s","h","o","r","t","."," ","P","l","e","a","s","e"," ","e","n","s","u","r","e"," ","t","h","e"," ","r","e","s","u","m","e"," ","h","a","s"," ","r","e","a","d","a","b","l","e"," ","c","o","n","t","e","n","t",".">>

\* the check with the floor off by one
FailsLengthCheckOffByOne(text) == Falsy(text) \/ Len(text) <= MinTextLength

\* !rawText || rawText.length < 50
FailsLengthCheck(text) == Falsy(text) \/ Len(text) < MinTextLength

\* sectionsFound with hasExperience taken from the normalized record's headline
SectionsFoundFromHeadline(detected) ==
    [hasName |-> ~Falsy(detected.name),
     hasContact |-> ~Falsy(OrElse(detected.contact.email, detected.contact.phone)),
     hasSkills |-> Len(detected.skills) > 0,
     hasExperience |-> ~Falsy(createPortfolioSchema(detected).headline),
     hasProjects |-> Len(detected.projects) > 0,
     hasEducation |-> Len(detected.education) > 0]

\* metadata.sectionsFound
SectionsFound(detected) ==
    [hasName |-> ~Falsy(detected.name),
     hasContact |-> ~Falsy(OrElse(detected.contact.email, detected.contact.phone)),
     hasSkills |-> Len(detected.skills) > 0,
     hasExperience |-> Len(detected.experience) > 0,
     hasProjects |-> Len(detected.projects) > 0,
     hasEducation |-> Len(detected.education) > 0]

\* how many characters are appended to a document of the input set
MaxPad == 3

Padding(n) == [k \in 1..n |-> "x"]

\* documents whose normalized length lies on both sides of the floor, with and
\* without white space that normalization removes; documents far below and above it
DocumentHeads ==
    { <<"J","a","n","e"," ","D","o","e","\n","j","a","n","e","@","x",".","i","o","\n","S","k","i","l","l","s","\n","P","y","t","h","o","n",","," ","R","e","a","c","t",","," ","D","o","c","k","e","r","\n">>,
      <<" "," ","J","a","n","e"," ","D","o","e"," "," ","\n","\n","\n","j","a","n","e","@","x",".","i","o","\n"," ","\n","S","k","i","l","l","s","\n","\t","P","y","t","h","o","n",","," ","R","e","a","c","t",","," ","D","o","c","k","e","r","\n">>,
      <<>>,
      <<"E","x","p","e","r","i","e","n","c","e","\n","D","e","v"," ","a","t"," ","A","c","m","e"," ","|"," ","2","0","2","0"," ","-"," ","2","0","2","1","\n","E","d","u","c","a","t","i","o","n","\n","P","h","D"," ","2","0","0","1","\n">> }

Documents == {head \o Padding(n) : head \in DocumentHeads, n \in 0..MaxPad}

MimeTypes == {MimePdf, MimeDocx, MimeTxt, <<"i","m","a","g","e","/","p","n","g">>, <<"t","e","x","t","/","h","t","m","l">>, <<>>}

DecoderErrors == {<<"E","N","O","E","N","T">>}

Init ==
    /\ pc = "start"
    /\ mimetype \in MimeTypes
    /\ fileText \in Documents
    /\ useAI \in BOOLEAN
    /\ apiKey \in BOOLEAN
    /\ rawText = Undefined
    /\ detectedSections = UndefinedRecord
    /\ portfolioData = UndefinedRecord
    /\ thrown = Undefined
    /\ result = UndefinedRecord
    /\ reads = 0
    /\ emailLastIndex = 0
    /\ phoneLastIndex = 0
    /\ Portfolio = {}
    /\ Session = {}
    /\ uploads = <<>>
    /\ arg = Undefined
    /\ ret = Undefined
    /\ norm = Undefined

\* extractText: the default case of the switch throws before anything is read
ExtractTextUnsupported ==
    /\ pc = "start"
    /\ ~SupportedMime(mimetype)
    /\ thrown' = UnsupportedFileType(mimetype)
    /\ pc' = "catch"
    /\ UNCHANGED <<Portfolio, Session, uploads,
                   mimetype, fileText, useAI, apiKey, rawText, detectedSections,
                   portfolioData, result, reads, emailLastIndex, phoneLastIndex,
                   arg, ret, norm>>

\* extractText: the decoder (pdf-parse, mammoth) or fs.readFile rejects
ExtractTextFails ==
    /\ pc = "start"
    /\ SupportedMime(mimetype)
    /\ reads' = reads + 1
    /\ \E message \in DecoderErrors : thrown' = DecoderFailure(mimetype, message)
    /\ pc' = "catch"
    /\ UNCHANGED <<Portfolio, Session, uploads,
                   mimetype, fileText, useAI, apiKey, rawText, detectedSections,
                   portfolioData, result, emailLastIndex, phoneLastIndex, arg, ret, norm>>

\* extractText: the decoder yields the file's text, which is normalized
ExtractText ==
    /\ pc = "start"
    /\ SupportedMime(mimetype)
    /\ reads' = reads + 1
    /\ rawText' = normalizeText(fileText)
    /\ pc' = "extracted"
    /\ UNCHANGED <<Portfolio, Session, uploads,
                   mimetype, fileText, useAI, apiKey, detectedSections, portfolioData,
                   thrown, result, emailLastIndex, phoneLastIndex, arg, ret, norm>>

\* if (!rawText || rawText.length < 50) throw
CheckLengthThrows ==
    /\ pc = "extracted"
    /\ FailsLengthCheck(rawText)
    /\ thrown' = TooShort
    /\ pc' = "catch"
    /\ UNCHANGED <<Portfolio, Session, uploads,
                   mimetype, fileText, useAI, apiKey, rawText, detectedSections,
                   portfolioData, result, reads, emailLastIndex, phoneLastIndex,
                   arg, ret, norm>>

CheckLengthPasses ==
    /\ pc = "extracted"
    /\ ~FailsLengthCheck(rawText)
    /\ pc' = "detect"
    /\ UNCHANGED <<Portfolio, Session, uploads,
                   mimetype, fileText, useAI, apiKey, rawText, detectedSections,
                   portfolioData, thrown, result, reads, emailLastIndex,
                   phoneLastIndex, arg, ret, norm>>

\* const detectedSections = detectSections(rawText); the two text.match calls of
\* detectContact leave the lastIndex of both global regexes at 0
DetectSections ==
    /\ pc = "detect"
    /\ detectedSections' = detectSections(rawText, emailLastIndex, phoneLastIndex)
    /\ emailLastIndex' = 0
    /\ phoneLastIndex' = 0
    /\ pc' = "normalize"
    /\ UNCHANGED <<Portfolio, Session, uploads,
                   mimetype, fileText, useAI, apiKey, rawText, portfolioData, thrown,
                   result, reads, arg, ret, norm>>

\* const portfolioData = createPortfolioSchema(detectedSections)
CreatePortfolioSchema ==
    /\ pc = "normalize"
    /\ portfolioData' = createPortfolioSchema(detectedSections)
    /\ pc' = "return"
    /\ UNCHANGED <<Portfolio, Session, uploads,
                   mimetype, fileText, useAI, apiKey, rawText, detectedSections,
                   thrown, result, reads, emailLastIndex, phoneLastIndex, arg, ret, norm>>

\* ReturnSuccess with a refinement step in the useAI block that rewrites the summary
ReturnSuccessRefinedByAI ==
    /\ pc = "return"
    /\ result' = [success |-> TRUE,
                  data |-> IF useAI /\ apiKey
                           THEN [portfolioData EXCEPT !.summary = <<"r","e","f","i","n","e","d">>]
                           ELSE portfolioData,
                  metadata |-> [textLength |-> Len(rawText),
                                sectionsFound |-> SectionsFound(detectedSections)],
                  error |-> Undefined]
    /\ pc' = "done"
    /\ UNCHANGED <<Portfolio, Session, uploads,
                   mimetype, fileText, useAI, apiKey, rawText, detectedSections,
                   portfolioData, thrown, reads, emailLastIndex, phoneLastIndex,
                   arg, ret, norm>>

\* the if (options.useAI && process.env.OPENAI_API_KEY) block only logs; return
ReturnSuccess ==
    /\ pc = "return"
    /\ result' = [success |-> TRUE,
                  data |-> portfolioData,
                  metadata |-> [textLength |-> Len(rawText),
                                sectionsFound |-> SectionsFound(detectedSections)],
                  error |-> Undefined]
    /\ pc' = "done"
    /\ UNCHANGED <<Portfolio, Session, uploads,
                   mimetype, fileText, useAI, apiKey, rawText, detectedSections,
                   portfolioData, thrown, reads, emailLastIndex, phoneLastIndex,
                   arg, ret, norm>>

\* the catch block returning what the pipeline had got to
CatchErrorWithPartialData ==
    /\ pc = "catch"
    /\ result' = [success |-> FALSE,
                  data |-> portfolioData,
                  metadata |-> UndefinedRecord,
                  error |-> thrown]
    /\ pc' = "done"
    /\ UNCHANGED <<Portfolio, Session, uploads,
                   mimetype, fileText, useAI, apiKey, rawText, detectedSections,
                   portfolioData, thrown, reads, emailLastIndex, phoneLastIndex,
                   arg, ret, norm>>

\* catch (error): return { success: false, error: error.message, data: null }
CatchError ==
    /\ pc = "catch"
    /\ result' = [success |-> FALSE,
                  data |-> NullRecord,
                  metadata |-> UndefinedRecord,
                  error |-> thrown]
    /\ pc' = "done"
    /\ UNCHANGED <<Portfolio, Session, uploads,
                   mimetype, fileText, useAI, apiKey, rawText, detectedSections,
                   portfolioData, thrown, reads, emailLastIndex, phoneLastIndex,
                   arg, ret, norm>>

Next ==
    \/ ExtractTextUnsupported
    \/ ExtractTextFails
    \/ ExtractText
    \/ CheckLengthThrows
    \/ CheckLengthPasses
    \/ DetectSections
    \/ CreatePortfolioSchema
    \/ ReturnSuccess
    \/ CatchError

Spec == Init /\ [][Next]_vars

(***************************************************************************)
(* parseResume: the claims checked under Spec                              *)
(***************************************************************************)
\* C1: parseResume fails (success = false, error set) whenever the normalized text
\* that extraction returned has length 49 or less, the empty string included, and
\* goes on to detection and normalization whenever that length is 50 or more.
C1_MinimumContentGate ==
    rawText # Undefined =>
        IF Len(rawText) <= 49
        THEN /\ pc \in {"extracted", "catch", "done"}
             /\ detectedSections = UndefinedRecord
             /\ portfolioData = UndefinedRecord
             /\ pc = "done" =>
                    /\ result.success = FALSE
                    /\ IsString(result.error)
                    /\ Len(result.error) > 0
        ELSE /\ Len(rawText) >= 50
             /\ pc \in {"extracted", "detect", "normalize", "return", "done"}
             /\ thrown = Undefined
             /\ pc \in {"normalize", "return", "done"} =>
                    detectedSections # UndefinedRecord
             /\ pc \in {"return", "done"} => portfolioData # UndefinedRecord
             /\ pc = "done" => result.success = TRUE

\* a text of exactly 50 characters went through detection and normalization
C1_Witness ==
    /\ pc = "done"
    /\ rawText # Undefined
    /\ Len(rawText) = 50
    /\ result.success = TRUE
    /\ result.data = portfolioData

\* C2: for every MIME type other than application/pdf, the DOCX type and text/plain,
\* extractText fails with the unsupported-format error before any decoder or file
\* read is invoked, and parseResume returns a failure that carries that error.
C2_UnsupportedFormat ==
    mimetype \notin {<<"a","p","p","l","i","c","a","t","i","o","n","/","p","d","f">>, <<"t","e","x","t","/","p","l","a","i","n">>,
        <<"a","p","p","l","i","c","a","t","i","o","n","/","v","n","d",".","o","p","e","n","x","m","l","f","o","r","m","a","t","s","-","o","f","f","i","c","e","d","o","c","u","m","e","n","t",".","w","o","r","d","p","r","o","c","e","s","s","i","n","g","m","l",".","d","o","c","u","m","e","n","t">>} =>
        /\ reads = 0
        /\ rawText = Undefined
        /\ pc \in {"start", "catch", "done"}
        /\ pc \in {"catch", "done"} => thrown = <<"U","n","s","u","p","p","o","r","t","e","d"," ","f","i","l","e"," ","t","y","p","e",":"," ">> \o mimetype
        /\ pc = "done" =>
               /\ result.success = FALSE
               /\ result.error = <<"U","n","s","u","p","p","o","r","t","e","d"," ","f","i","l","e"," ","t","y","p","e",":"," ">> \o mimetype

\* an image MIME type was refused and the failure returned
C2_Witness ==
    /\ pc = "done"
    /\ mimetype = <<"i","m","a","g","e","/","p","n","g">>
    /\ result.success = FALSE
    /\ reads = 0

\* C3: on every failure path of parseResume (unsupported type, decoder error, text
\* below the floor) the result has success = false, one error string, data = null
\* and no metadata; detection and normalization never ran, and no partial record
\* is returned.
C3_FailureShape ==
    /\ thrown # Undefined =>
           /\ pc \in {"catch", "done"}
           /\ detectedSections = UndefinedRecord
           /\ portfolioData = UndefinedRecord
    /\ pc = "done" =>
           /\ (result.success = FALSE) <=> (thrown # Undefined)
           /\ (result.success = FALSE) <=>
                  \/ mimetype \notin {MimePdf, MimeDocx, MimeTxt}
                  \/ rawText = Undefined
                  \/ Len(rawText) < 50
           /\ result.success = FALSE =>
                  /\ result.data = NullRecord
                  /\ result.metadata = UndefinedRecord
                  /\ IsString(result.error)
                  /\ result.error = thrown

\* a decoder error was caught and returned as a failure
C3_Witness ==
    /\ pc = "done"
    /\ result.success = FALSE
    /\ mimetype = MimePdf
    /\ reads = 1
    /\ rawText = Undefined

(***************************************************************************)
(* Function-level runs: a function of the parser is applied to an argument *)
(* drawn from a bounded set, while parseResume is not running.             *)
(***************************************************************************)
pipelineVars ==
    <<mimetype, fileText, useAI, apiKey, rawText, detectedSections, portfolioData,
      thrown, result, reads, emailLastIndex, phoneLastIndex>>

PipelineIdle ==
    /\ mimetype = <<>>
    /\ fileText = <<>>
    /\ useAI = FALSE
    /\ apiKey = FALSE
    /\ rawText = Undefined
    /\ detectedSections = UndefinedRecord
    /\ portfolioData = UndefinedRecord
    /\ thrown = Undefined
    /\ result = UndefinedRecord
    /\ reads = 0
    /\ emailLastIndex = 0
    /\ phoneLastIndex = 0

\* a call with an argument of `args` is about to be made
CallWith(args) ==
    /\ PipelineIdle
    /\ Portfolio = {}
    /\ Session = {}
    /\ uploads = <<>>
    /\ pc = "call"
    /\ arg \in args
    /\ ret = Undefined
    /\ norm = Undefined

\* the strings of at most n characters of `alphabet`
StringsUpTo(n, alphabet) == UNION {[1..k -> alphabet] : k \in 0..n}

\* the lists of at most n elements of `items`
ListsUpTo(n, items) == UNION {[1..k -> items] : k \in 0..n}

(***************************************************************************)
(* normalizeText                                                           *)
(***************************************************************************)
MaxTextLength == 5

TextAlphabet == {"a", " ", "\n", "\t"}

InitNormalizeText == CallWith(StringsUpTo(MaxTextLength, TextAlphabet))

NormalizeTextCall ==
    /\ pc = "call"
    /\ ret' = normalizeText(arg)
    /\ pc' = "once"
    /\ UNCHANGED <<pipelineVars, Portfolio, Session, uploads, arg, norm>>

\* normalizeText applied to its own output
NormalizeTextAgain ==
    /\ pc = "once"
    /\ norm' = normalizeText(ret)
    /\ pc' = "twice"
    /\ UNCHANGED <<pipelineVars, Portfolio, Session, uploads, arg, ret>>

NextNormalizeText == NormalizeTextCall \/ NormalizeTextAgain

SpecNormalizeText == InitNormalizeText /\ [][NextNormalizeText]_vars

\* C4: normalizeText is idempotent: normalizeText(normalizeText(s)) equals
\* normalizeText(s) for every s; and its output has no empty line, no line with
\* leading or trailing white space and no two consecutive line breaks (the text
\* neither starts nor ends with a white space character or a line break, and no
\* line break has a white space character or a line break next to it).
C4_NormalizeTextIdempotent ==
    /\ pc \in {"once", "twice"} =>
           /\ Len(ret) > 0 => ret[1] \notin WhiteSpace /\ ret[Len(ret)] \notin WhiteSpace
           /\ \A i \in 1..Len(ret) :
                  ret[i] = "\n" =>
                      /\ ret[i - 1] \notin WhiteSpace
                      /\ ret[i + 1] \notin WhiteSpace
    /\ pc = "twice" => norm = ret

\* a text with blank lines and padded lines was normalized to several lines, then again
C4_Witness ==
    /\ pc = "twice"
    /\ Len(ret) < Len(arg)
    /\ \E i \in 1..Len(ret) : ret[i] = "\n"
    /\ \E i \in 1..(Len(arg) - 1) : arg[i] = "\n" /\ arg[i + 1] = "\n"

(***************************************************************************)
(* createPortfolioSchema                                                   *)
(***************************************************************************)
\* DetectedSections values: every field absent, every field present, and mixtures
NamesDetected == {Null, <<"U","n","k","n","o","w","n">>, <<" ","J","a","n","e"," ","D","o","e"," ">>}

ContactsDetected ==
    {[email |-> Null, phone |-> Null],
     [email |-> <<"j","a","n","e","@","d","o","e",".","i","o">>, phone |-> <<"5","5","5","-","1","2","3","-","4","5","6","7">>]}

LinksDetected ==
    {[github |-> Null, linkedin |-> Null, website |-> Null],
     [github |-> <<"h","t","t","p","s",":","/","/","g","i","t","h","u","b",".","c","o","m","/","j","a","n","e">>, linkedin |-> Null,
      website |-> <<"h","t","t","p","s",":","/","/","j","a","n","e",".","d","e","v">>]}

SummariesDetected == {Null, <<"B","u","i","l","d","s"," ","t","h","i","n","g","s",".">>}

SkillsDetected == {NoList, <<>>, <<<<"P","y","t","h","o","n">>, <<"E","x","c","e","l">>, <<"R","e","a","c","t">>>>}

ExperienceDetected ==
    {NoEntries, <<>>,
     <<[role |-> <<>>, company |-> Undefined, duration |-> <<>>, description |-> <<>>,
        highlights |-> NoList]>>,
     <<[role |-> <<"E","n","g","i","n","e","e","r">>, company |-> <<"A","c","m","e">>, duration |-> <<"2","0","2","0"," ","-"," ","2","0","2","1">>,
        description |-> <<"B","u","i","l","t"," ","i","t">>, highlights |-> <<<<"B","u","i","l","t"," ","i","t">>>>],
       [role |-> <<"I","n","t","e","r","n">>, company |-> Undefined, duration |-> <<>>,
        description |-> <<>>, highlights |-> <<>>]>>}

ProjectsDetected ==
    {NoEntries, <<>>,
     <<[title |-> Undefined, tech |-> NoList, description |-> Undefined, link |-> Null]>>,
     <<[title |-> <<"P","a","r","s","e","r">>, tech |-> <<<<"G","o">>>>, description |-> <<"P","a","r","s","e","s">>,
        link |-> <<"h","t","t","p","s",":","/","/","p","a","r","s","e","r",".","d","e","v">>],
       [title |-> <<"S","i","t","e">>, tech |-> <<>>, description |-> <<>>, link |-> Null]>>}

EducationDetected ==
    {NoEntries, <<>>,
     <<[degree |-> Undefined, institution |-> Undefined, year |-> Undefined,
        details |-> Undefined]>>,
     <<[degree |-> <<"B","S","c">>, institution |-> <<"M","I","T">>, year |-> <<"2","0","1","9">>, details |-> <<>>]>>}

DetectedSectionsValues ==
    [name : NamesDetected, contact : ContactsDetected, links : LinksDetected,
     summary : SummariesDetected, skills : SkillsDetected,
     experience : ExperienceDetected, projects : ProjectsDetected,
     education : EducationDetected]

InitSchema == CallWith(DetectedSectionsValues)

CreatePortfolioSchemaCall ==
    /\ pc = "call"
    /\ ret' = createPortfolioSchema(arg)
    /\ pc' = "returned"
    /\ UNCHANGED <<pipelineVars, Portfolio, Session, uploads, arg, norm>>

SpecSchema == InitSchema /\ [][CreatePortfolioSchemaCall]_vars

\* C5 as stated: for any DetectedSections input createPortfolioSchema returns a
\* record with no null leaf anywhere, links.*, projects[].link and
\* projects[].image included, and with every list field present.
C5_NoNullLeafAnywhere ==
    pc = "returned" =>
        /\ \A f \in {"name", "headline", "summary", "theme"} : IsString(ret[f])
        /\ \A f \in {"github", "linkedin", "email", "phone", "website"} :
               IsString(ret.links[f])
        /\ \A k \in 1..Len(ret.projects) :
               IsString(ret.projects[k].link) /\ IsString(ret.projects[k].image)

\* C5: for any DetectedSections input, the all-null and all-empty ones included,
\* createPortfolioSchema returns without raising a record in which every list
\* field is present and every leaf is a string, except that links.github,
\* links.linkedin, links.website, links.email, links.phone and projects[].link
\* are null when the value was not detected (and the detected value otherwise)
\* and projects[].image is always null.
C5_NullOnlyInLinksAndImage ==
    pc = "returned" =>
        /\ thrown = Undefined
        /\ \A f \in {"name", "headline", "summary", "theme"} : IsString(ret[f])
        /\ ret.skills # NoEntries /\ ret.experience # NoEntries
        /\ ret.projects # NoEntries /\ ret.education # NoEntries
        /\ \A k \in 1..Len(ret.skills) :
               IsString(ret.skills[k].category) /\ ret.skills[k].items # NoList
        /\ \A k \in 1..Len(ret.experience) :
               /\ \A f \in {"role", "company", "duration", "description"} :
                      IsString(ret.experience[k][f])
               /\ ret.experience[k].highlights # NoList
        /\ \A k \in 1..Len(ret.education) :
               \A f \in {"degree", "institution", "year", "details"} :
                   IsString(ret.education[k][f])
        /\ \A k \in 1..Len(ret.projects) :
               /\ IsString(ret.projects[k].title) /\ IsString(ret.projects[k].description)
               /\ ret.projects[k].tech # NoList
               /\ ret.projects[k].image = Null
               /\ ret.projects[k].link =
                      (IF arg.projects[k].link \in {Null, Undefined, <<>>} THEN Null
                       ELSE arg.projects[k].link)
        /\ \A f \in {"github", "linkedin", "website"} :
               ret.links[f] = (IF arg.links[f] \in {Null, <<>>} THEN Null ELSE arg.links[f])
        /\ \A f \in {"email", "phone"} :
               ret.links[f] = (IF arg.contact[f] \in {Null, <<>>} THEN Null
                               ELSE arg.contact[f])

\* nothing was detected: the record has empty lists and null links
C5_Witness ==
    /\ pc = "returned"
    /\ arg.name = Null /\ arg.summary = Null /\ arg.skills = NoList
    /\ arg.experience = NoEntries /\ arg.projects = NoEntries /\ arg.education = NoEntries
    /\ ret.experience = <<>> /\ ret.projects = <<>> /\ ret.skills = <<>>
    /\ \A f \in {"github", "linkedin", "email", "phone", "website"} : ret.links[f] = Null

(***************************************************************************)
(* findSections                                                            *)
(***************************************************************************)
MaxLines == 4

\* two header lines (one of them padded) and two content lines
SectionLineVocabulary == {<<"S","k","i","l","l","s">>, <<" ","E","d","u","c","a","t","i","o","n"," ">>, <<"P","y","t","h","o","n">>, <<"M","I","T">>}

InitFindSections == CallWith(ListsUpTo(MaxLines, SectionLineVocabulary))

FindSectionsCall ==
    /\ pc = "call"
    /\ ret' = findSections(arg)
    /\ pc' = "returned"
    /\ UNCHANGED <<pipelineVars, Portfolio, Session, uploads, arg, norm>>

SpecFindSections == InitFindSections /\ [][FindSectionsCall]_vars

\* C6: in findSections, for two matched header lines at indices i < j with no
\* matched header between them, the content returned for the section opened at
\* line i is exactly the lines strictly between i and j, for every line sequence,
\* those where one section kind is matched by several lines included.
C6_SectionBoundaryExclusivity ==
    pc = "returned" =>
        LET headers == {i \in 1..Len(arg) : FoundSection(trim(arg[i])) # NoSection}
        IN  \A i, j \in headers :
                (i < j /\ \A k \in headers : ~(i < k /\ k < j)) =>
                    ret[FoundSection(trim(arg[i]))] = SubSeq(arg, i + 1, j - 1)

(***************************************************************************)
(* detectLinks                                                             *)
(***************************************************************************)
MaxTokens == 3

\* the pieces the texts are concatenated from
LinkTokens == {<<"g","i","t","h","u","b",".","c","o","m","/","o","c","t","o","c","a","t">>, <<"G","i","t","H","u","b",".","c","o","m","/">>, <<"m","e">>, <<" ">>, <<"/">>, <<"-","x">>}

InitDetectLinks ==
    CallWith({flatten(tokens) : tokens \in ListsUpTo(MaxTokens, LinkTokens)})

DetectLinksCall ==
    /\ pc = "call"
    /\ ret' = detectLinks(arg)
    /\ pc' = "returned"
    /\ UNCHANGED <<pipelineVars, Portfolio, Session, uploads, arg, norm>>

SpecDetectLinks == InitDetectLinks /\ [][DetectLinksCall]_vars

\* C7 as stated: every text that contains "github.com/octocat" anywhere yields
\* github = "https://github.com/octocat", and a text without a GitHub path
\* yields null.
C7_OctocatAnywhere ==
    pc = "returned" =>
        /\ includes(arg, <<"g","i","t","h","u","b",".","c","o","m","/","o","c","t","o","c","a","t">>) =>
               ret.github = <<"h","t","t","p","s",":","/","/","g","i","t","h","u","b",".","c","o","m","/","o","c","t","o","c","a","t">>
        /\ ~includes(toLowerCase(arg), <<"g","i","t","h","u","b",".","c","o","m","/">>) => ret.github = Null

\* C7: the github link is "https://github.com/" followed by the captured
\* handle, which is the longest run of letters, digits, "_" and "-" after the
\* leftmost occurrence of "github.com/" (in any letter case) that has such a
\* character after it, and null when there is no such occurrence; so a text
\* containing "github.com/octocat" yields "https://github.com/octocat" when
\* that is its first GitHub path and no handle character follows "octocat".
C7_GithubFirstHandle ==
    pc = "returned" =>
        LET n == Len(<<"g","i","t","h","u","b",".","c","o","m","/">>)
            starts == {p \in 1..(Len(arg) - n) :
                          /\ toLowerCase(SubSeq(arg, p, p + n - 1)) = <<"g","i","t","h","u","b",".","c","o","m","/">>
                          /\ arg[p + n] \in HandleChars}
        IN  IF starts = {} THEN ret.github = Null
            ELSE LET first == CHOOSE p \in starts : \A q \in starts : p <= q
                     last == CHOOSE e \in (first + n)..Len(arg) :
                                 /\ \A k \in (first + n)..e : arg[k] \in HandleChars
                                 /\ e < Len(arg) => arg[e + 1] \notin HandleChars
                 IN  ret.github = <<"h","t","t","p","s",":","/","/","g","i","t","h","u","b",".","c","o","m","/">> \o SubSeq(arg, first + n, last)

\* "github.com/octocat" occurs after other text and is the first GitHub path
C7_Witness ==
    /\ pc = "returned"
    /\ indexOf(arg, <<"g","i","t","h","u","b",".","c","o","m","/","o","c","t","o","c","a","t">>, 0) > 0
    /\ ret.github = <<"h","t","t","p","s",":","/","/","g","i","t","h","u","b",".","c","o","m","/","o","c","t","o","c","a","t">>

(***************************************************************************)
(* detectName followed by normalizeName                                    *)
(***************************************************************************)
MaxNameLines == 3

NameLineVocabulary ==
    {<<"U","n","k","n","o","w","n">>, <<"P","o","r","t","f","o","l","i","o"," ","O","w","n","e","r">>, <<" ","J","a","n","e"," ","D","o","e"," ">>, <<"j","a","n","e","@","d","o","e",".","i","o">>, <<"S","k","i","l","l","s">>}

\* documents of at most MaxNameLines lines
NameDocuments ==
    {join(lines, <<"\n">>) : lines \in ListsUpTo(MaxNameLines, NameLineVocabulary)}

\* a name that a caller of normalizeName passes for "not detected"
AbsentNames == {Null, Undefined, <<>>}

\* normalizeName is applied to the name detectSections found in a document, or
\* to an absent name
InitName ==
    /\ PipelineIdle
    /\ Portfolio = {}
    /\ Session = {}
    /\ uploads = <<>>
    /\ norm = Undefined
    /\ \/ pc = "call" /\ arg \in NameDocuments /\ ret = Undefined
       \/ pc = "detected" /\ arg = <<>> /\ ret \in AbsentNames

DetectNameCall ==
    /\ pc = "call"
    /\ ret' = detectSections(arg, emailLastIndex, phoneLastIndex).name
    /\ pc' = "detected"
    /\ UNCHANGED <<pipelineVars, Portfolio, Session, uploads, arg, norm>>

NormalizeNameCall ==
    /\ pc = "detected"
    /\ norm' = normalizeName(ret)
    /\ pc' = "normalized"
    /\ UNCHANGED <<pipelineVars, Portfolio, Session, uploads, arg, ret>>

NextName == DetectNameCall \/ NormalizeNameCall

SpecName == InitName /\ [][NextName]_vars

\* C8 as stated: the normalized name is "Portfolio Owner" exactly when the
\* detected name is absent or is the literal "Unknown"; the document whose only
\* line is "Unknown" yields "Portfolio Owner".
C8_FallbackExactlyWhenAbsent ==
    pc = "normalized" =>
        /\ norm = <<"P","o","r","t","f","o","l","i","o"," ","O","w","n","e","r">> <=> (ret \in AbsentNames \/ ret = <<"U","n","k","n","o","w","n">>)
        /\ arg = <<"U","n","k","n","o","w","n">> => norm = <<"P","o","r","t","f","o","l","i","o"," ","O","w","n","e","r">>

\* C8: the normalized name is "Portfolio Owner" when the detected name is absent
\* (null, undefined or empty) or is the literal "Unknown", and is the detected
\* name without its leading and trailing white space otherwise, which is
\* "Portfolio Owner" too when the detected name is that text; the document
\* whose only line is "Unknown" yields "Portfolio Owner".
C8_NameFallback ==
    pc = "normalized" =>
        /\ IF ret \in AbsentNames \/ ret = <<"U","n","k","n","o","w","n">> THEN norm = <<"P","o","r","t","f","o","l","i","o"," ","O","w","n","e","r">>
           ELSE \E a \in 0..Len(ret) : \E b \in a..Len(ret) :
                    /\ norm = SubSeq(ret, a + 1, b)
                    /\ \A k \in 1..a : ret[k] \in WhiteSpace
                    /\ \A k \in (b + 1)..Len(ret) : ret[k] \in WhiteSpace
                    /\ Len(norm) > 0 =>
                           norm[1] \notin WhiteSpace /\ norm[Len(norm)] \notin WhiteSpace
        /\ arg = <<"U","n","k","n","o","w","n">> => norm = <<"P","o","r","t","f","o","l","i","o"," ","O","w","n","e","r">>

\* the document whose only line is "Unknown" was detected and normalized
C8_Witness ==
    /\ pc = "normalized"
    /\ arg = <<"U","n","k","n","o","w","n">>
    /\ ret = <<"U","n","k","n","o","w","n">>
    /\ norm = <<"P","o","r","t","f","o","l","i","o"," ","O","w","n","e","r">>

(***************************************************************************)
(* detectSkills followed by normalizeSkills                                *)
(***************************************************************************)
MaxSkillLines == 3

SkillLineVocabulary ==
    {<<"P","y","t","h","o","n",","," ","R","e","a","c","t",","," ","D","o","c","k","e","r">>, <<"G","o",",">>, <<" ",",","R","u","s","t"," ">>, <<"-"," ","S","Q","L">>, <<"E","x","c","e","l">>, <<"D","j","a","n","g","o">>}

InitSkills == CallWith(ListsUpTo(MaxSkillLines, SkillLineVocabulary))

DetectSkillsCall ==
    /\ pc = "call"
    /\ ret' = detectSkills(arg)
    /\ pc' = "detected"
    /\ UNCHANGED <<pipelineVars, Portfolio, Session, uploads, arg, norm>>

NormalizeSkillsCall ==
    /\ pc = "detected"
    /\ norm' = normalizeSkills(ret)
    /\ pc' = "normalized"
    /\ UNCHANGED <<pipelineVars, Portfolio, Session, uploads, arg, ret>>

NextSkills == DetectSkillsCall \/ NormalizeSkillsCall

SpecSkills == InitSkills /\ [][NextSkills]_vars

\* C9: when the lines of the skills section, joined by a space, contain a comma,
\* detectSkills returns exactly the pieces between the commas, trimmed, without
\* the empty ones, in order of appearance; for "Python, React, Docker" this is
\* ["Python", "React", "Docker"], which normalizeSkills places in Languages,
\* Frontend and DevOps respectively.
C9_CommaSeparatedSkills ==
    /\ (pc \in {"detected", "normalized"} /\ Len(arg) > 0) =>
           LET text == join(arg, <<" ">>)
               commas == {p \in 1..Len(text) : text[p] = ","}
               pieces == Cardinality(commas) + 1
               cut(k) == IF k = 0 THEN 0
                         ELSE IF k = pieces THEN Len(text) + 1
                         ELSE CHOOSE p \in commas :
                                  Cardinality({q \in commas : q < p}) = k - 1
               piece(k) == trim(SubSeq(text, cut(k - 1) + 1, cut(k) - 1))
               kept == {k \in 1..pieces : piece(k) # <<>>}
           IN  commas # {} =>
                   /\ Len(ret) = Cardinality(kept)
                   /\ \A k \in kept : ret[Cardinality({j \in kept : j <= k})] = piece(k)
    /\ (pc \in {"detected", "normalized"} /\ arg = <<<<"P","y","t","h","o","n",","," ","R","e","a","c","t",","," ","D","o","c","k","e","r">>>>) =>
           ret = <<<<"P","y","t","h","o","n">>, <<"R","e","a","c","t">>, <<"D","o","c","k","e","r">>>>
    /\ (pc = "normalized" /\ arg = <<<<"P","y","t","h","o","n",","," ","R","e","a","c","t",","," ","D","o","c","k","e","r">>>>) =>
           norm = <<[category |-> <<"L","a","n","g","u","a","g","e","s">>, items |-> <<<<"P","y","t","h","o","n">>>>],
                    [category |-> <<"F","r","o","n","t","e","n","d">>, items |-> <<<<"R","e","a","c","t">>>>],
                    [category |-> <<"D","e","v","O","p","s">>, items |-> <<<<"D","o","c","k","e","r">>>>]>>

\* a section of several lines with commas and empty pieces was split and regrouped
C9_Witness ==
    /\ pc = "normalized"
    /\ arg = <<<<"G","o",",">>, <<"P","y","t","h","o","n",","," ","R","e","a","c","t",","," ","D","o","c","k","e","r">>, <<" ",",","R","u","s","t"," ">>>>
    /\ ret = <<<<"G","o">>, <<"P","y","t","h","o","n">>, <<"R","e","a","c","t">>, <<"D","o","c","k","e","r">>, <<"R","u","s","t">>>>
    /\ Len(norm) = 3

(***************************************************************************)
(* detectExperience                                                        *)
(***************************************************************************)
\* an experience section: a header line "<role><connector><company><rest>",
\* followed by nothing or by one highlight line
ExperienceSections ==
    {<<role \o connector \o company \o rest>> \o highlights :
        role \in {<<"S","o","f","t","w","a","r","e"," ","E","n","g","i","n","e","e","r">>, <<"E","n","g","i","n","e","e","r">>, <<"C","h","e","f"," ","a","t"," ","H","o","m","e">>},
        connector \in {<<" ","a","t"," ">>, <<" ","A","T"," ">>, <<" ","f","o","r"," ">>},
        company \in {<<"A","c","m","e">>, <<"A","c","m","e"," ","C","o","r","p">>},
        rest \in {<<" ","|"," ","J","a","n"," ","2","0","2","0"," ","-"," ","P","r","e","s","e","n","t">>, <<","," ","2","0","2","0"," ","-"," ","2","0","2","1">>, <<" ","(","2","0","1","9",")">>, <<" ","2","0","2","0">>},
        highlights \in {<<>>, <<<<"-"," ","B","u","i","l","t"," ","i","t">>>>}}

InitExperience == CallWith(ExperienceSections)

DetectExperienceCall ==
    /\ pc = "call"
    /\ ret' = detectExperience(arg)
    /\ pc' = "returned"
    /\ UNCHANGED <<pipelineVars, Portfolio, Session, uploads, arg, norm>>

SpecExperience == InitExperience /\ [][DetectExperienceCall]_vars

\* C10: for an experience header line whose first part (the text before the
\* first "|", "," or "(") contains " at " once, the role is the text before
\* " at " and the company the text after it, both strings; when the first part
\* does not contain " at ", the role is the whole first part and the company is
\* the empty string. "Software Engineer at Acme | Jan 2020 - Present" gives role
\* "Software Engineer", company "Acme" and a duration containing
\* "Jan 2020 - Present".
C10_RoleCompanySplit ==
    pc = "returned" =>
        LET trimmed == trim(arg[1])
            seps == {p \in 1..Len(trimmed) : trimmed[p] \in {"|", ",", "("}}
            cut == IF seps = {} THEN Len(trimmed) + 1
                   ELSE CHOOSE p \in seps : \A q \in seps : p <= q
            first == trim(SubSeq(trimmed, 1, cut - 1))
            ats == {p \in 1..(Len(first) - 3) : SubSeq(first, p, p + 3) = <<" ","a","t"," ">>}
        IN  /\ Len(ret) = 1
            /\ \A p \in ats :
                   ats = {p} =>
                       /\ ret[1].role = trim(SubSeq(first, 1, p - 1))
                       /\ ret[1].company = trim(SubSeq(first, p + 4, Len(first)))
            /\ ats = {} => ret[1].role = first /\ ret[1].company = <<>>
            /\ IsString(ret[1].role) /\ IsString(ret[1].company)
            /\ arg[1] = <<"S","o","f","t","w","a","r","e"," ","E","n","g","i","n","e","e","r"," ","a","t"," ","A","c","m","e"," ","|"," ","J","a","n"," ","2","0","2","0"," ","-"," ","P","r","e","s","e","n","t">> =>
                   /\ ret[1].role = <<"S","o","f","t","w","a","r","e"," ","E","n","g","i","n","e","e","r">>
                   /\ ret[1].company = <<"A","c","m","e">>
                   /\ includes(ret[1].duration, <<"J","a","n"," ","2","0","2","0"," ","-"," ","P","r","e","s","e","n","t">>)

(***************************************************************************)
(* createPortfolioSchema: headline and entry defaults                      *)
(***************************************************************************)
\* C11: the headline of the record createPortfolioSchema returns is the role of
\* the first detected experience entry when that entry exists and its role is
\* not empty, and is "Professional" in every other case (no experience, or a
\* first entry with an empty role).
C11_HeadlineFallback ==
    pc = "returned" =>
        ret.headline =
            (IF /\ ~NoRecords(arg.experience)
                /\ ~Falsy(arg.experience[1].role)
             THEN arg.experience[1].role
             ELSE <<"P","r","o","f","e","s","s","i","o","n","a","l">>)

\* C12 as stated: in the normalized record every missing or empty string field
\* of an experience, project or education entry, role and title included, is
\* the empty string, and every missing list field is [].
C12_EveryStringDefaultsToEmpty ==
    pc = "returned" =>
        /\ \A k \in 1..Len(ret.experience) :
               /\ \A f \in {"role", "company", "duration", "description"} :
                      Falsy(arg.experience[k][f]) => ret.experience[k][f] = <<>>
               /\ arg.experience[k].highlights = NoList => ret.experience[k].highlights = <<>>
        /\ \A k \in 1..Len(ret.projects) :
               /\ \A f \in {"title", "description"} :
                      Falsy(arg.projects[k][f]) => ret.projects[k][f] = <<>>
               /\ arg.projects[k].tech = NoList => ret.projects[k].tech = <<>>
        /\ \A k \in 1..Len(ret.education) :
               \A f \in {"degree", "institution", "year", "details"} :
                   Falsy(arg.education[k][f]) => ret.education[k][f] = <<>>

\* C12: in the normalized record a missing or empty role is "Position", a
\* missing or empty title is "Untitled Project", every other missing or empty
\* string field of an experience, project or education entry (company,
\* duration, description, degree, institution, year, details) is the empty
\* string, and every missing list field (highlights, tech) is []; a field that
\* is present keeps its value, and no entry is added or dropped.
C12_EntryDefaults ==
    pc = "returned" =>
        LET default(f) == IF f = "role" THEN <<"P","o","s","i","t","i","o","n">>
                          ELSE IF f = "title" THEN <<"U","n","t","i","t","l","e","d"," ","P","r","o","j","e","c","t">> ELSE <<>>
            string(raw, f) == IF Falsy(raw[f]) THEN default(f) ELSE raw[f]
            list(raw, f) == IF raw[f] = NoList THEN <<>> ELSE raw[f]
            count(raw) == IF raw = NoEntries THEN 0 ELSE Len(raw)
        IN  /\ Len(ret.experience) = count(arg.experience)
            /\ Len(ret.projects) = count(arg.projects)
            /\ Len(ret.education) = count(arg.education)
            /\ \A k \in 1..Len(ret.experience) :
                   /\ \A f \in {"role", "company", "duration", "description"} :
                          ret.experience[k][f] = string(arg.experience[k], f)
                   /\ ret.experience[k].highlights = list(arg.experience[k], "highlights")
            /\ \A k \in 1..Len(ret.projects) :
                   /\ \A f \in {"title", "description"} :
                          ret.projects[k][f] = string(arg.projects[k], f)
                   /\ ret.projects[k].tech = list(arg.projects[k], "tech")
            /\ \A k \in 1..Len(ret.education) :
                   \A f \in {"degree", "institution", "year", "details"} :
                       ret.education[k][f] = string(arg.education[k], f)

\* entries with every field missing were normalized
C12_Witness ==
    /\ pc = "returned"
    /\ Len(ret.experience) = 1 /\ Len(ret.projects) = 1 /\ Len(ret.education) = 1
    /\ Falsy(arg.experience[1].role) /\ arg.experience[1].highlights = NoList
    /\ Falsy(arg.projects[1].title) /\ Falsy(arg.education[1].details)
    /\ ret.experience[1].role = <<"P","o","s","i","t","i","o","n">> /\ ret.experience[1].company = <<>>
    /\ ret.projects[1].title = <<"U","n","t","i","t","l","e","d"," ","P","r","o","j","e","c","t">> /\ ret.projects[1].tech = <<>>
    /\ ret.education[1].details = <<>>

(***************************************************************************)
(* detectSections called several times in one process                      *)
(***************************************************************************)
MaxCalls == 3

\* texts whose detectName scan ends with a non-zero lastIndex, texts whose
\* name depends on the lastIndex the scan starts with, and a text with a section
CallTexts ==
    {<<"j","a","n","e","@","d","o","e",".","i","o">>,
     <<"J","a","n","e"," ","D","o","e"," ","A","@","b",".","c","o","\n","M","a","r","y"," ","A","n","n"," ","L","e","e">>,
     <<"j","a","n","e","@","d","o","e",".","i","o","\n","J","a","n","e"," ","D","o","e"," ","A","@","b",".","c","o">>,
     <<"5","5","5","-","1","2","3","-","4","5","6","7">>,
     <<"C","a","l","l"," ","M","e"," ","X","5","5","5","-","1","2","3","-","4","5","6","7","\n","M","a","r","y"," ","A","n","n"," ","L","e","e">>,
     <<"E","x","p","e","r","i","e","n","c","e","\n","E","n","g","i","n","e","e","r"," ","A","T"," ","A","c","m","e"," ","|"," ","2","0","2","0"," ","-"," ","2","0","2","1","\n","-"," ","B","u","i","l","t"," ","i","t">>,
     <<"P","r","o","j","e","c","t","s","\n","P","a","r","s","e","r"," ","T","o","o","l","\n","T","e","c","h","n","o","l","o","g","i","e","s",":"," ","R","e","a","c","t",","," ","N","o","d","e">>}

\* arg is the list of the texts detectSections was called with so far, ret the
\* record the last call returned
InitCalls ==
    /\ PipelineIdle
    /\ Portfolio = {}
    /\ Session = {}
    /\ uploads = <<>>
    /\ pc = "calls"
    /\ arg = <<>>
    /\ ret = Undefined
    /\ norm = Undefined

\* one more call; the regexes are left as detectName and then detectContact
\* leave them
DetectSectionsCall ==
    /\ pc = "calls"
    /\ Len(arg) < MaxCalls
    /\ \E text \in CallTexts :
           LET named == detectName(NonEmptyLines(text), emailLastIndex, phoneLastIndex)
           IN  /\ arg' = Append(arg, text)
               /\ ret' = detectSections(text, emailLastIndex, phoneLastIndex)
               /\ emailLastIndex' = lastIndexAfterMatch(named.emailLastIndex)
               /\ phoneLastIndex' = lastIndexAfterMatch(named.phoneLastIndex)
    /\ UNCHANGED <<Portfolio, Session, uploads,
                   mimetype, fileText, useAI, apiKey, rawText, detectedSections,
                   portfolioData, thrown, result, reads, pc, norm>>

SpecCalls == InitCalls /\ [][DetectSectionsCall]_vars

\* C13: the detector keeps no state between calls: whatever texts
\* detectSections was called with before, detectSections(T) returns the record
\* it returns when it is the first call, and between calls the lastIndex of
\* EMAIL_PATTERN and of PHONE_PATTERN is 0.
C13_NoCrossCallState ==
    /\ emailLastIndex = 0
    /\ phoneLastIndex = 0
    /\ (pc = "calls" /\ Len(arg) > 0) => ret = detectSections(arg[Len(arg)], 0, 0)

\* after two calls whose name scan ended on an email and on a phone line, a
\* text whose first line holds an email was given its second line as the name
C13_Witness ==
    /\ pc = "calls"
    /\ arg = <<<<"j","a","n","e","@","d","o","e",".","i","o">>, <<"5","5","5","-","1","2","3","-","4","5","6","7">>, <<"J","a","n","e"," ","D","o","e"," ","A","@","b",".","c","o","\n","M","a","r","y"," ","A","n","n"," ","L","e","e">>>>
    /\ ret.name = <<"M","a","r","y"," ","A","n","n"," ","L","e","e">>
    /\ detectName(NonEmptyLines(arg[1]), 0, 0).emailLastIndex > 0

(***************************************************************************)
(* parseResume: the useAI option and the metadata                          *)
(***************************************************************************)
\* C14: for the same document and MIME type parseResume returns the same data
\* and metadata for every value of options.useAI and whether or not an AI
\* credential is configured: on success both are determined by the document
\* alone.
C14_UseAIIsNoOp ==
    (pc = "done" /\ result.success) =>
        LET text == normalizeText(fileText)
            detected == detectSections(text, 0, 0)
        IN  /\ result.data = createPortfolioSchema(detected)
            /\ result.metadata = [textLength |-> Len(text),
                                  sectionsFound |-> SectionsFound(detected)]

\* a parse with useAI set and a credential configured succeeded
C14_Witness ==
    /\ pc = "done"
    /\ result.success
    /\ useAI
    /\ apiKey
    /\ result.data.summary = <<>>

\* C15: on success each metadata flag reflects the detected structure: hasName
\* iff the detected name is neither null nor empty, hasContact iff an email or
\* a phone was detected, hasSkills, hasExperience, hasProjects and hasEducation
\* iff the detected list is not empty; the fallbacks of normalization
\* ("Portfolio Owner", "Professional") do not influence a flag.
C15_MetadataFlags ==
    (pc = "done" /\ result.success) =>
        LET found == result.metadata.sectionsFound
            absent == {Null, Undefined, <<>>}
        IN  /\ found.hasName <=> detectedSections.name \notin absent
            /\ found.hasContact <=> \/ detectedSections.contact.email \notin absent
                                    \/ detectedSections.contact.phone \notin absent
            /\ found.hasSkills <=> detectedSections.skills # <<>>
            /\ found.hasExperience <=> detectedSections.experience # <<>>
            /\ found.hasProjects <=> detectedSections.projects # <<>>
            /\ found.hasEducation <=> detectedSections.education # <<>>

\* no experience was detected: the headline is the fallback and the flag is false
C15_Witness ==
    /\ pc = "done"
    /\ result.success
    /\ result.data.headline = <<"P","r","o","f","e","s","s","i","o","n","a","l">>
    /\ ~result.metadata.sectionsFound.hasExperience
    /\ result.metadata.sectionsFound.hasSkills
    /\ result.metadata.sectionsFound.hasContact

\* C16: for every input text detectSections returns a record in which every
\* key (name, contact.email, contact.phone, links.github, links.linkedin,
\* links.website, summary, skills, experience, projects, education) is present,
\* and the role, company, duration and description of every experience entry
\* are strings, never undefined.
C16_EveryKeyPresent ==
    (pc = "calls" /\ Len(arg) > 0) =>
        /\ DOMAIN ret = {"name", "contact", "links", "summary", "skills", "experience",
                         "projects", "education"}
        /\ DOMAIN ret.contact = {"email", "phone"}
        /\ DOMAIN ret.links = {"github", "linkedin", "website"}
        /\ ret.name # Undefined /\ ret.summary # Undefined
        /\ \A k \in 1..Len(ret.experience) :
               \A f \in {"role", "company", "duration", "description"} :
                   ret.experience[k][f] # Undefined

\* C17: a name that the scan of detectName returned (a name other than the
\* fallback, which is the first line) does not match the email pattern, the
\* phone pattern, a URL or a section header pattern, has at most 50 characters
\* and 2 to 4 words that each start with an upper-case letter, whichever
\* earlier lines of the scan matched the email or the phone pattern.
C17_ScannedNameIsClean ==
    (pc = "calls" /\ Len(arg) > 0) =>
        LET lines == NonEmptyLines(arg[Len(arg)])
        IN  (Len(lines) > 0 /\ ret.name # lines[1]) =>
                /\ ~Test(EMAIL_PATTERN, ret.name)
                /\ ~Test(PHONE_PATTERN, ret.name)
                /\ ~Test(HttpPrefix, ret.name)
                /\ ~IsSectionHeader(ret.name)
                /\ Len(ret.name) <= 50
                /\ LooksLikeName(ret.name)

\* C18: normalizeSkills partitions its input: every raw skill appears exactly
\* once in the output, in the first category (order Languages, Frontend,
\* Backend, Database, DevOps, Tools) one of whose keywords is a substring of the
\* lower-cased skill, or in Other if none matches; categories without items are
\* omitted; the categories follow that order with Other last; items keep their
\* input order within a category.
C18_SkillsPartition ==
    pc = "normalized" =>
        LET last == Len(CategoryNames)
            matches(skill, c) ==
                \E k \in 1..Len(CategoryKeywords[c]) :
                    LET keyword == CategoryKeywords[c][k]
                        lower == toLowerCase(skill)
                    IN  \E p \in 1..(Len(lower) - Len(keyword) + 1) :
                            SubSeq(lower, p, p + Len(keyword) - 1) = keyword
            bucket(skill) ==
                IF \E c \in 1..(last - 1) : matches(skill, c)
                THEN CHOOSE c \in 1..(last - 1) :
                         matches(skill, c) /\ \A d \in 1..(c - 1) : ~matches(skill, d)
                ELSE last
            position(k) == CHOOSE c \in 1..last : CategoryNames[c] = norm[k].category
            total[k \in 0..Len(norm)] ==
                IF k = 0 THEN 0 ELSE total[k - 1] + Len(norm[k].items)
        IN  /\ \A k \in 1..Len(norm) :
                   /\ norm[k].category \in {CategoryNames[c] : c \in 1..last}
                   /\ Len(norm[k].items) > 0
                   /\ norm[k].items =
                          SelectSeq(ret, LAMBDA skill : bucket(skill) = position(k))
            /\ \A k \in 1..(Len(norm) - 1) : position(k) < position(k + 1)
            /\ total[Len(norm)] = Len(ret)

\* a skill with keywords of two categories, one with a keyword of one category
\* and one with none were regrouped
C18_Witness ==
    /\ pc = "normalized"
    /\ ret = <<<<"E","x","c","e","l">>, <<"D","j","a","n","g","o">>, <<"S","Q","L">>>>
    /\ norm = <<[category |-> <<"L","a","n","g","u","a","g","e","s">>, items |-> <<<<"D","j","a","n","g","o">>>>],
                [category |-> <<"D","a","t","a","b","a","s","e">>, items |-> <<<<"S","Q","L">>>>],
                [category |-> <<"O","t","h","e","r">>, items |-> <<<<"E","x","c","e","l">>>>]>>

(***************************************************************************)
(* detectExperience on sections of several lines                           *)
(***************************************************************************)
MaxExperienceLines == 3

\* a header line, two bullet lines, a bullet line with "present" inside a word,
\* a blank line, a line with the word "current" and a line with a bullet only
ExperienceLineVocabulary ==
    {<<"D","e","v"," ","a","t"," ","A","c","m","e"," ","|"," ","2","0","2","0"," ","-"," ","2","0","2","1">>, <<"-"," ","B","u","i","l","t"," ","i","t">>, <<"-","*"," ","L","e","d"," ","t","e","a","m">>,
     <<"*"," ","P","r","e","s","e","n","t","e","d"," ","r","e","s","u","l","t","s">>, <<" "," ">>, <<"C","U","R","R","E","N","T"," ","r","o","l","e">>, <<" ","-"," ">>}

InitExperienceLines ==
    CallWith(ListsUpTo(MaxExperienceLines, ExperienceLineVocabulary))

SpecExperienceLines == InitExperienceLines /\ [][DetectExperienceCall]_vars

C20_EveryLineIsAHighlight ==
    pc = "returned" =>
        LET header(line) == Test(datePattern, line)
            headers == {k \in 1..Len(arg) : header(arg[k])}
            opened(j) == CHOOSE h \in headers : Cardinality({g \in headers : g < h}) = j - 1
            closed(j) == IF j = Cardinality(headers) THEN Len(arg) + 1 ELSE opened(j + 1)
            spaces(s) == CHOOSE n \in 0..Len(s) :
                             /\ \A k \in 1..n : s[k] \in WhiteSpace
                             /\ n < Len(s) => s[n + 1] \notin WhiteSpace
            stripped(t) == IF t[1] \in Bullets
                           THEN SubSeq(t, 2 + spaces(Tail(t)), Len(t))
                           ELSE t
            body(j) == SelectSeq(SubSeq(arg, opened(j) + 1, closed(j) - 1),
                                 LAMBDA line : trim(line) # <<>>)
        IN  /\ Len(ret) = Cardinality(headers)
            /\ \A j \in 1..Len(ret) :
                   /\ ret[j].highlights = [k \in 1..Len(body(j)) |-> stripped(trim(body(j)[k]))]
                   /\ ret[j].description = join(ret[j].highlights, <<" ">>)

\* C20: every line that is not a header, occurs while an entry is open and is
\* not empty once one leading bullet and the white space after it are stripped,
\* is appended in that stripped form to the highlights of the entry opened last
\* and to no other, in line order; blank lines and lines made of a bullet only
\* are dropped; lines before the first header belong to no entry; each
\* description is the highlights joined by single spaces.
C20_HighlightsOfOpenEntry ==
    pc = "returned" =>
        LET header(line) == Test(datePattern, line)
            headers == {k \in 1..Len(arg) : header(arg[k])}
            opened(j) == CHOOSE h \in headers : Cardinality({g \in headers : g < h}) = j - 1
            closed(j) == IF j = Cardinality(headers) THEN Len(arg) + 1 ELSE opened(j + 1)
            spaces(s) == CHOOSE n \in 0..Len(s) :
                             /\ \A k \in 1..n : s[k] \in WhiteSpace
                             /\ n < Len(s) => s[n + 1] \notin WhiteSpace
            stripped(t) == IF t # <<>> /\ t[1] \in Bullets
                           THEN SubSeq(t, 2 + spaces(Tail(t)), Len(t))
                           ELSE t
            body(j) == SelectSeq(SubSeq(arg, opened(j) + 1, closed(j) - 1),
                                 LAMBDA line : stripped(trim(line)) # <<>>)
        IN  /\ Len(ret) = Cardinality(headers)
            /\ \A j \in 1..Len(ret) :
                   /\ ret[j].highlights = [k \in 1..Len(body(j)) |-> stripped(trim(body(j)[k]))]
                   /\ ret[j].description = join(ret[j].highlights, <<" ">>)

\* after the header a line with a bullet only was dropped and a line with two
\* bullets lost the first one
C20_Witness ==
    /\ pc = "returned"
    /\ arg = <<<<"D","e","v"," ","a","t"," ","A","c","m","e"," ","|"," ","2","0","2","0"," ","-"," ","2","0","2","1">>, <<" ","-"," ">>, <<"-","*"," ","L","e","d"," ","t","e","a","m">>>>
    /\ Len(ret) = 1
    /\ ret[1].highlights = <<<<"*"," ","L","e","d"," ","t","e","a","m">>>>
    /\ ret[1].description = <<"*"," ","L","e","d"," ","t","e","a","m">>

(***************************************************************************)
(* detectProjects                                                          *)
(***************************************************************************)
MaxProjectLines == 3

\* two title lines, a tech line, a tech line with a URL after the list, a line
\* with two URLs and a line with one URL
ProjectLineVocabulary ==
    {<<"P","o","r","t","f","o","l","i","o"," ","S","i","t","e">>, <<"P","a","r","s","e","r"," ","T","o","o","l">>, <<"-"," ","T","e","c","h","n","o","l","o","g","i","e","s",":"," ","R","e","a","c","t",","," ","N","o","d","e">>,
     <<"*"," ","B","u","i","l","t"," ","w","i","t","h",":"," ","G","o",","," ","V","u","e"," ","h","t","t","p","s",":","/","/","g","o",".","d","e","v","/","x">>, <<"-"," ","L","i","v","e"," ","a","t"," ","h","t","t","p","s",":","/","/","a",".","i","o"," ","a","n","d"," ","h","t","t","p","s",":","/","/","b",".","i","o">>,
     <<"-"," ","D","e","m","o"," ","h","t","t","p","s",":","/","/","c",".","i","o">>}

InitProjects == CallWith(ListsUpTo(MaxProjectLines, ProjectLineVocabulary))

DetectProjectsCall ==
    /\ pc = "call"
    /\ ret' = detectProjects(arg)
    /\ pc' = "returned"
    /\ UNCHANGED <<pipelineVars, Portfolio, Session, uploads, arg, norm>>

SpecProjects == InitProjects /\ [][DetectProjectsCall]_vars

\* C21: in detectProjects, when a line of an open project contains
\* "technologies:", "tech stack:" or "built with:" in any letter case, the
\* project's tech list becomes the comma-split of all the text after the first
\* colon of that line, also when that text contains further colons, and the
\* line is not appended to the description.
C21_TechAfterFirstColon ==
    pc = "returned" =>
        LET title(line) == line[1] \notin Bullets /\ Len(line) > 5 /\ ~includes(line, <<":">>)
            titles == {k \in 1..Len(arg) : title(arg[k])}
            opened(j) == CHOOSE h \in titles : Cardinality({g \in titles : g < h}) = j - 1
            closed(j) == IF j = Cardinality(titles) THEN Len(arg) + 1 ELSE opened(j + 1)
            tech(line) == \E w \in {<<"t","e","c","h","n","o","l","o","g","i","e","s",":">>, <<"t","e","c","h"," ","s","t","a","c","k",":">>, <<"b","u","i","l","t"," ","w","i","t","h",":">>} :
                              includes(toLowerCase(line), w)
            body(j) == SubSeq(arg, opened(j) + 1, closed(j) - 1)
            techLines(j) == SelectSeq(body(j), tech)
            others(j) == SelectSeq(body(j), LAMBDA line : ~tech(line))
            afterColon(line) ==
                SubSeq(line, 1 + (CHOOSE p \in 1..Len(line) :
                                      line[p] = ":" /\ \A q \in 1..(p - 1) : line[q] # ":"),
                       Len(line))
            pieces(text) == LET parts == split(text, <<",">>)
                            IN  [k \in 1..Len(parts) |-> trim(parts[k])]
        IN  /\ Len(ret) = Cardinality(titles)
            /\ \A j \in 1..Len(ret) :
                   /\ ret[j].tech =
                          (IF techLines(j) = <<>> THEN <<>>
                           ELSE pieces(afterColon(techLines(j)[Len(techLines(j))])))
                   /\ ret[j].description =
                          join([k \in 1..Len(others(j)) |-> stripBullet(others(j)[k], Bullets)],
                               <<" ">>)

\* C22: through detectSections, a line of the projects section that contains
\* "technologies:" while a project is open is consumed by the projects parser
\* and fills that project's tech list, whether it is bulleted or starts with the
\* word "Technologies"; such a line does not end the projects section.
C22_TechLineStaysInProjects ==
    (pc = "calls" /\ Len(arg) > 0) =>
        LET lines == NonEmptyLines(arg[Len(arg)])
            title(line) == line[1] \notin Bullets /\ Len(line) > 5 /\ ~includes(line, <<":">>)
            parts(line) == split(line, <<":">>)
            techs(line) == split(parts(line)[2], <<",">>)
        IN  (/\ Len(lines) = 3
             /\ lines[1] = <<"P","r","o","j","e","c","t","s">>
             /\ title(lines[2])
             /\ includes(toLowerCase(lines[3]), <<"t","e","c","h","n","o","l","o","g","i","e","s",":">>)
             /\ Len(parts(lines[3])) = 2) =>
                /\ Len(ret.projects) = 1
                /\ ret.projects[1].title = lines[2]
                /\ ret.projects[1].tech =
                       [k \in 1..Len(techs(lines[3])) |-> trim(techs(lines[3])[k])]

\* C23: in detectProjects a project's link is the first URL of the last line
\* of that project that contains a URL, and null if no line of the project
\* contains one; a URL on a line of one project does not set the link of
\* another project.
C23_LastUrlLineWins ==
    pc = "returned" =>
        LET title(line) == line[1] \notin Bullets /\ Len(line) > 5 /\ ~includes(line, <<":">>)
            titles == {k \in 1..Len(arg) : title(arg[k])}
            opened(j) == CHOOSE h \in titles : Cardinality({g \in titles : g < h}) = j - 1
            closed(j) == IF j = Cardinality(titles) THEN Len(arg) + 1 ELSE opened(j + 1)
            urlAt(line, p) ==
                \E scheme \in {<<"h","t","t","p",":","/","/">>, <<"h","t","t","p","s",":","/","/">>} :
                    /\ p + Len(scheme) <= Len(line)
                    /\ SubSeq(line, p, p + Len(scheme) - 1) = scheme
                    /\ line[p + Len(scheme)] \notin WhiteSpace
            hasUrl(line) == \E p \in 1..Len(line) : urlAt(line, p)
            firstUrl(line) ==
                LET p == CHOOSE q \in 1..Len(line) :
                             urlAt(line, q) /\ \A r \in 1..(q - 1) : ~urlAt(line, r)
                    e == CHOOSE f \in p..Len(line) :
                             /\ \A k \in p..f : line[k] \notin WhiteSpace
                             /\ f < Len(line) => line[f + 1] \in WhiteSpace
                IN  SubSeq(line, p, e)
            urlLines(j) == SelectSeq(SubSeq(arg, opened(j) + 1, closed(j) - 1), hasUrl)
        IN  /\ Len(ret) = Cardinality(titles)
            /\ \A j \in 1..Len(ret) :
                   ret[j].link = (IF urlLines(j) = <<>> THEN Null
                                  ELSE firstUrl(urlLines(j)[Len(urlLines(j))]))

\* two lines of one project hold URLs: the link is the first URL of the later line
C23_Witness ==
    /\ pc = "returned"
    /\ arg = <<<<"P","a","r","s","e","r"," ","T","o","o","l">>, <<"-"," ","L","i","v","e"," ","a","t"," ","h","t","t","p","s",":","/","/","a",".","i","o"," ","a","n","d"," ","h","t","t","p","s",":","/","/","b",".","i","o">>,
               <<"-"," ","D","e","m","o"," ","h","t","t","p","s",":","/","/","c",".","i","o">>>>
    /\ Len(ret) = 1
    /\ ret[1].link = <<"h","t","t","p","s",":","/","/","c",".","i","o">>

(***************************************************************************)
(* detectEducation                                                         *)
(***************************************************************************)
MaxEducationLines == 3

\* two degree lines, two lines longer than 5 characters, a shorter line and a
\* blank line
EducationLineVocabulary ==
    {<<"P","h","D"," ","P","h","y","s","i","c","s"," ","2","0","0","1">>, <<" ","M","a","s","t","e","r"," ","o","f"," ","A","r","t","s">>, <<"M","I","T"," ","C","a","m","b","r","i","d","g","e"," ">>, <<"G","P","A"," ","4">>,
     <<"T","h","e","s","i","s"," ","o","n"," ","p","a","r","s","i","n","g">>, <<" "," ">>}

InitEducation == CallWith(ListsUpTo(MaxEducationLines, EducationLineVocabulary))

DetectEducationCall ==
    /\ pc = "call"
    /\ ret' = detectEducation(arg)
    /\ pc' = "returned"
    /\ UNCHANGED <<pipelineVars, Portfolio, Session, uploads, arg, norm>>

SpecEducation == InitEducation /\ [][DetectEducationCall]_vars

\* C24: in detectEducation, for each entry opened by a degree line, the
\* institution is the first following line without a degree that is longer than
\* 5 characters (empty when there is none), and every other non-blank line of
\* the entry, up to the next degree line, is appended in order to details with
\* one joining space; the institution is set at most once and lines before the
\* first degree line belong to no entry.
C24_InstitutionThenDetails ==
    pc = "returned" =>
        LET degrees == {k \in 1..Len(arg) : Test(degreePattern, arg[k])}
            opened(j) == CHOOSE h \in degrees : Cardinality({g \in degrees : g < h}) = j - 1
            closed(j) == IF j = Cardinality(degrees) THEN Len(arg) + 1 ELSE opened(j + 1)
            long(j) == {k \in (opened(j) + 1)..(closed(j) - 1) : Len(trim(arg[k])) > 5}
            first(j) == CHOOSE k \in long(j) : \A m \in long(j) : k <= m
            rest(j) == SelectSeq(
                           [k \in 1..(closed(j) - opened(j) - 1) |->
                               IF long(j) # {} /\ opened(j) + k = first(j) THEN <<>>
                               ELSE trim(arg[opened(j) + k])],
                           LAMBDA line : line # <<>>)
        IN  /\ Len(ret) = Cardinality(degrees)
            /\ \A j \in 1..Len(ret) :
                   /\ ret[j].degree = trim(arg[opened(j)])
                   /\ ret[j].institution =
                          (IF long(j) = {} THEN <<>> ELSE trim(arg[first(j)]))
                   /\ ret[j].details = join(rest(j), <<" ">>)

\* a short line came before the institution and went to the details
C24_Witness ==
    /\ pc = "returned"
    /\ arg = <<<<"P","h","D"," ","P","h","y","s","i","c","s"," ","2","0","0","1">>, <<"G","P","A"," ","4">>, <<"M","I","T"," ","C","a","m","b","r","i","d","g","e"," ">>>>
    /\ Len(ret) = 1
    /\ ret[1].institution = <<"M","I","T"," ","C","a","m","b","r","i","d","g","e">>
    /\ ret[1].details = <<"G","P","A"," ","4">>

(***************************************************************************)
(* uploadController: concurrent uploadResume requests.  A request runs      *)
(* from one await to the next in one step; requests interleave at the       *)
(* awaits.  uploads[r] holds request r's position (pc), req.file (file),    *)
(* the sessionId of the body and then of the handler, the local `session`   *)
(* (<<>> for null, else the one document findOne returned), the number of   *)
(* fs.unlink calls on its file (unlinks), the status of the response sent   *)
(* (0 while none is) and the error caught (error).                          *)
(***************************************************************************)
MaxRequests == 2

Requests == 1..MaxRequests

\* req.body.sessionId: the client's session, or none
BodySessionIds == {<<"s","1">>, <<>>}

\* a rejection of a database operation that the handler's own writes did not
\* cause
Unavailable == "unavailable"

\* the unique index on Session.sessionId rejects a second insert
DuplicateKey == "E11000"

\* the session of the client exists already with one portfolio, or does not
InitUpload ==
    /\ PipelineIdle
    /\ pc = "upload"
    /\ arg = Undefined
    /\ ret = Undefined
    /\ norm = Undefined
    /\ \/ Portfolio = {} /\ Session = {}
       \/ /\ Portfolio = {[_id |-> 0, sessionId |-> <<"s","1">>]}
          /\ Session = {[sessionId |-> <<"s","1">>, portfolioIds |-> <<0>>]}
    /\ uploads \in [Requests -> [pc : {"start"}, file : BOOLEAN, sessionId : BodySessionIds,
                                 session : {<<>>}, unlinks : {0}, status : {0},
                                 error : {"none"}]]

\* uploadResume up to `await portfolio.save()`: no file is a 400; a parse
\* failure unlinks the file and is a 400; otherwise the sessionId is the
\* body's or a fresh UUID
UploadResume(r) ==
    /\ uploads[r].pc = "start"
    /\ \/ /\ ~uploads[r].file
          /\ uploads' = [uploads EXCEPT ![r].pc = "done", ![r].status = 400]
       \/ /\ uploads[r].file
          /\ \E success \in BOOLEAN :
                IF success
                THEN uploads' = [uploads EXCEPT
                         ![r].pc = "portfolio.save",
                         ![r].sessionId = IF Falsy(@) THEN <<"u", "u", "i", "d", ToString(r)>>
                                          ELSE @]
                ELSE uploads' = [uploads EXCEPT
                         ![r].pc = "done", ![r].unlinks = @ + 1, ![r].status = 400]
    /\ UNCHANGED <<pipelineVars, pc, arg, ret, norm, Portfolio, Session>>

\* await portfolio.save(): the document is inserted, or the save rejects
PortfolioSave(r) ==
    /\ uploads[r].pc = "portfolio.save"
    /\ \/ /\ Portfolio' = Portfolio \cup {[_id |-> r, sessionId |-> uploads[r].sessionId]}
          /\ uploads' = [uploads EXCEPT ![r].pc = "Session.findOne"]
       \/ /\ uploads' = [uploads EXCEPT ![r].pc = "catch", ![r].error = Unavailable]
          /\ UNCHANGED Portfolio
    /\ UNCHANGED <<pipelineVars, pc, arg, ret, norm, Session>>

\* let session = await Session.findOne({ sessionId }): the stored document as
\* it is now, or null
SessionFindOne(r) ==
    /\ uploads[r].pc = "Session.findOne"
    /\ \/ LET found == {doc \in Session : doc.sessionId = uploads[r].sessionId}
          IN  uploads' = [uploads EXCEPT
                  ![r].pc = "session.save",
                  ![r].session = IF found = {} THEN <<>> ELSE <<CHOOSE doc \in found : TRUE>>]
       \/ uploads' = [uploads EXCEPT ![r].pc = "catch", ![r].error = Unavailable]
    /\ UNCHANGED <<pipelineVars, pc, arg, ret, norm, Portfolio, Session>>

\* CatchUploadError that leaves the file in place
CatchUploadErrorKeepsFile(r) ==
    /\ uploads[r].pc = "catch"
    /\ uploads' = [uploads EXCEPT ![r].pc = "done", ![r].status = 500]
    /\ UNCHANGED <<pipelineVars, pc, arg, ret, norm, Portfolio, Session>>

\* the catch block: req.file is set on every path that throws, so the file is
\* unlinked, and the response is a 500
CatchUploadError(r) ==
    /\ uploads[r].pc = "catch"
    /\ uploads' = [uploads EXCEPT ![r].pc = "done", ![r].unlinks = @ + 1, ![r].status = 500]
    /\ UNCHANGED <<pipelineVars, pc, arg, ret, norm, Portfolio, Session>>

\* await session.save() and the rest of the try block.  A new Session is an
\* insert, which the unique index rejects when the sessionId is stored by now;
\* a found Session saves its push as a $push on the stored document.  After
\* the save the file is unlinked and the response is the 200.
SessionSave(r) ==
    /\ uploads[r].pc = "session.save"
    /\ \/ /\ uploads[r].session = <<>>
          /\ \A doc \in Session : doc.sessionId # uploads[r].sessionId
          /\ Session' = Session \cup
                 {[sessionId |-> uploads[r].sessionId, portfolioIds |-> <<r>>]}
          /\ uploads' = [uploads EXCEPT
                 ![r].pc = "done", ![r].unlinks = @ + 1, ![r].status = 200]
       \/ /\ uploads[r].session = <<>>
          /\ \E doc \in Session : doc.sessionId = uploads[r].sessionId
          /\ uploads' = [uploads EXCEPT ![r].pc = "catch", ![r].error = DuplicateKey]
          /\ UNCHANGED Session
       \/ /\ uploads[r].session # <<>>
          /\ Session' = {IF doc.sessionId = uploads[r].sessionId
                         THEN [doc EXCEPT !.portfolioIds = Append(@, r)]
                         ELSE doc : doc \in Session}
          /\ uploads' = [uploads EXCEPT
                 ![r].pc = "done", ![r].unlinks = @ + 1, ![r].status = 200]
       \/ /\ uploads' = [uploads EXCEPT ![r].pc = "catch", ![r].error = Unavailable]
          /\ UNCHANGED Session
    /\ UNCHANGED <<pipelineVars, pc, arg, ret, norm, Portfolio>>

NextUpload ==
    \E r \in Requests :
        \/ UploadResume(r)
        \/ PortfolioSave(r)
        \/ SessionFindOne(r)
        \/ SessionSave(r)
        \/ CatchUploadError(r)

SpecUpload == InitUpload /\ [][NextUpload]_vars

\* C25: under any interleaving of concurrent uploadResume requests that carry
\* the same sessionId, once all requests have finished, every Portfolio
\* document saved with that sessionId has its id in the portfolioIds of the
\* single Session with that sessionId, and every request whose portfolio was
\* saved received a success response.  (Runs in which the database rejected
\* an operation for a reason of its own are left out.)
C25_SessionListsEveryPortfolio ==
    ((\A r \in Requests : uploads[r].pc = "done" /\ uploads[r].error # Unavailable)
      /\ (\A r, q \in Requests : uploads[r].sessionId = uploads[q].sessionId))
    => /\ \A saved \in Portfolio :
              /\ Cardinality({doc \in Session : doc.sessionId = saved.sessionId}) = 1
              /\ \A doc \in Session :
                     doc.sessionId = saved.sessionId =>
                         \E k \in 1..Len(doc.portfolioIds) : doc.portfolioIds[k] = saved._id
       /\ \A r \in Requests :
              (\E saved \in Portfolio : saved._id = r) => uploads[r].status = 200

\* C26: whenever uploadResume is invoked with an uploaded file, the deletion
\* of that file has been attempted by the time the handler finishes, on every
\* path: after a parse failure (400), after successful persistence (200) and
\* after an exception (500).
C26_FileUnlinkedOnEveryPath ==
    \A r \in Requests :
        (uploads[r].file /\ uploads[r].pc = "done") =>
            /\ uploads[r].unlinks >= 1
            /\ uploads[r].status \in {200, 400, 500}

\* the three ways of finishing have all happened, the 500 after a save threw
C26_Witness ==
    /\ \A r \in Requests : uploads[r].file /\ uploads[r].pc = "done" /\ uploads[r].unlinks >= 1
    /\ \E r \in Requests : uploads[r].status = 500 /\ uploads[r].error = DuplicateKey
    /\ \E r \in Requests : uploads[r].status = 200

\* C27: on every successful parseResume the detected name is a non-empty
\* string, so metadata.sectionsFound.hasName is true on every success, also
\* when no line qualified as a name and the detector fell back to the first
\* line of the document.
C27_NameFoundOnEverySuccess ==
    (pc = "done" /\ result.success) =>
        /\ IsString(detectedSections.name)
        /\ Len(detectedSections.name) > 0
        /\ result.metadata.sectionsFound.hasName

\* a success whose name is the first line, which does not look like a name
C27_Witness ==
    /\ pc = "done"
    /\ result.success
    /\ detectedSections.name = <<"E","x","p","e","r","i","e","n","c","e">>
    /\ ~LooksLikeName(detectedSections.name)
    /\ result.metadata.sectionsFound.hasName



























====
